---- MODULE Spec2Model ----
(***************************************************************************)
(* A model of check_mongodb.py: the result aggregator (IcingaOutput), the  *)
(* threshold engine (ThresholdEngine) and the availability check           *)
(* (TopologyDetector, AvailabilityChecker).                                *)
(***************************************************************************)
EXTENDS Integers, Sequences, FiniteSets, TLC

VARIABLES
    output,             \* the IcingaOutput object: status, messages, perfdata
    pc,                 \* position of the run
    uri_hosts,          \* MongoConnectionManager.parse_hosts_from_uri()
    expected_rs_name,   \* AvailabilityChecker.expected_rs_name (--replicaset)
    uri_replicaSet,     \* the replicaSet parameter of the URI query
    cmds,               \* the commands issued to servers so far, in order
    hello,              \* the handshake answer TopologyDetector.detect read
    topology,           \* what TopologyDetector.detect returned
    check_error,        \* the exception AvailabilityChecker.check caught
    rs_status,          \* the replSetGetStatus answer the check works on
    quorum,             \* voting_members, healthy_voting, majority, quorum_ok
    nodes_ok,
    nodes_down,
    node_i,             \* number of URI hosts the per-node loop has handled
    direct_ok,          \* locals of the last iteration of the per-node loop
    direct_error,
    indirect_info,
    thresholds,         \* ThresholdEngine.thresholds
    te_call,            \* arguments of the last ThresholdEngine.check call
    te_ret,             \* its return value
    hello_error,        \* the exception the standard handshake raised
    argv,               \* the command line: the modes selected, --thresholds
    process,            \* whether the process has exited, its exit code and
                        \* the number of result lines it has printed
    all_ok,             \* local of MetricsChecker.check, FilesystemChecker.check
    node_error,         \* the exception the last node of their loop raised
    db_stats,           \* the dbStats answer of the last node
    fs_base,            \* FilesystemChecker.warning and .critical
    node_metrics,       \* what the last node answered to _collect_metrics
    dt,                 \* the dynamic_threshold calls made: arguments, result
    shards,             \* _check_sharded: the shards listShards returned
    mongos_ok,
    mongos_down,
    shard_i,            \* number of shards the loop over shards has handled
    shard_client,       \* the member of the last shard that answered, or None
    shard_rs_status,    \* its answer to replSetGetStatus, or the exception
    config_host,        \* the config-server descriptor of getShardMap
    cfg_client,         \* the config server that answered, or None
    cfg_status          \* its answer to replSetGetStatus, or the exception

outVars == <<output>>
cfgVars == <<uri_hosts, expected_rs_name, uri_replicaSet>>
runVars == <<pc, cmds, hello, hello_error, topology, check_error>>
rsVars  == <<rs_status, quorum, nodes_ok, nodes_down, node_i,
             direct_ok, direct_error, indirect_info>>
teVars  == <<thresholds, te_call, te_ret>>
mainVars == <<argv, process>>
nodeVars == <<all_ok, node_error, db_stats, fs_base, node_metrics>>
dtVars  == <<dt>>
shVars  == <<shards, mongos_ok, mongos_down, shard_i, shard_client,
             shard_rs_status, config_host, cfg_client, cfg_status>>
extVars == <<mainVars, nodeVars, dtVars, shVars>>
vars    == <<outVars, cfgVars, runVars, rsVars, teVars, extVars>>

----------------------------------------------------------------------------
(* Constants of the program.                                               *)

NAGIOS_OK == 0
NAGIOS_WARNING == 1
NAGIOS_CRITICAL == 2
NAGIOS_UNKNOWN == 3

\* RS_STATES: the member states the check tells apart.
PRIMARY == 1
SECONDARY == 2
RECOVERING == 3
ARBITER == 7
DOWN == 8

\* TopologyDetector.STANDALONE, REPLICASET, SHARDED
STANDALONE == "standalone"
REPLICASET == "replicaset"
SHARDED == "sharded"

Severities == {NAGIOS_OK, NAGIOS_WARNING, NAGIOS_CRITICAL, NAGIOS_UNKNOWN}

\* Python's None, for a string-valued and for a dict-valued variable.
None == "<None>"
NoneRec == [none |-> TRUE]

----------------------------------------------------------------------------
(* IcingaOutput.                                                           *)

\* IcingaOutput.__init__
NewOutput == [status |-> NAGIOS_OK, messages |-> <<>>, perfdata |-> <<>>]

\* set_status with the guard of its last branch dropped: Unknown overrides.
set_status_UnknownOverrides(o, status) ==
    IF status = NAGIOS_UNKNOWN /\ o.status = NAGIOS_OK
    THEN [o EXCEPT !.status = NAGIOS_UNKNOWN]
    ELSE IF status > o.status /\ status # NAGIOS_UNKNOWN
    THEN [o EXCEPT !.status = status]
    ELSE IF status = NAGIOS_UNKNOWN
    THEN [o EXCEPT !.status = NAGIOS_UNKNOWN]
    ELSE o

\* IcingaOutput.set_status
set_status(o, status) ==
    IF status = NAGIOS_UNKNOWN /\ o.status = NAGIOS_OK
    THEN [o EXCEPT !.status = NAGIOS_UNKNOWN]
    ELSE IF status > o.status /\ status # NAGIOS_UNKNOWN
    THEN [o EXCEPT !.status = status]
    ELSE IF status = NAGIOS_UNKNOWN
            /\ o.status \notin {NAGIOS_WARNING, NAGIOS_CRITICAL}
    THEN [o EXCEPT !.status = NAGIOS_UNKNOWN]
    ELSE o

\* A finding: the severity it was proposed with, what it reports, and the
\* node (or "-") it is about.
Finding(sev, kind, node) == [sev |-> sev, kind |-> kind, node |-> node]

\* IcingaOutput.add_message
add_message(o, status, message) ==
    [set_status(o, status) EXCEPT
        !.messages = Append(@, Finding(status, message[1], message[2]))]

\* IcingaOutput.add_perfdata
add_perfdata(o, label, node, val) ==
    [o EXCEPT !.perfdata = Append(@, [label |-> label, node |-> node, value |-> val])]

----------------------------------------------------------------------------
(* Bounds of the model.                                                    *)

\* Findings proposed to the aggregator in one behaviour of SpecAgg.
MaxFindings == 4

\* Calls of ThresholdEngine.check in one behaviour of SpecTe, and the largest
\* metric value passed to it.
MaxChecks == 2
MaxValue == 4

\* Hosts in the URI: of a replica-set check (SpecRs) and of a whole
\* availability run (Spec).
MaxHosts == 2
MaxRunHosts == 1

\* Members in a membership snapshot of SpecQuorum.
MaxMembers == 4

\* Calls of dynamic_threshold in one behaviour of SpecDt.
MaxCalls == 2

----------------------------------------------------------------------------
(* Values of the variables a specification does not use.                   *)

EmptyDict == [k \in {} |-> 0]

NoQuorum == [voting_members |-> 0, healthy_voting |-> 0, majority |-> 0,
             quorum_ok |-> FALSE]

NoCall == [n |-> 0, metric_key |-> None, value |-> 0]

IdleCfg ==
    /\ uri_hosts = <<>>
    /\ expected_rs_name = None
    /\ uri_replicaSet = None

IdleRun ==
    /\ pc = "idle"
    /\ cmds = <<>>
    /\ hello = NoneRec
    /\ hello_error = None
    /\ topology = None
    /\ check_error = None

IdleRs ==
    /\ rs_status = NoneRec
    /\ quorum = NoQuorum
    /\ nodes_ok = 0
    /\ nodes_down = 0
    /\ node_i = 0
    /\ direct_ok = FALSE
    /\ direct_error = None
    /\ indirect_info = NoneRec

IdleTe ==
    /\ thresholds = EmptyDict
    /\ te_call = NoCall
    /\ te_ret = FALSE

NoArgs == [modes |-> {}, thresholds |-> None]

NotExited == [exited |-> FALSE, code |-> 0, printed |-> 0]

NoBase == [warning |-> 0, critical |-> 0]

NoDt == <<>>

IdleMain ==
    /\ argv = NoArgs
    /\ process = NotExited

IdleNode ==
    /\ all_ok = TRUE
    /\ node_error = None
    /\ db_stats = NoneRec
    /\ fs_base = NoBase
    /\ node_metrics = NoneRec

IdleDt == dt = NoDt

IdleSh ==
    /\ shards = <<>>
    /\ mongos_ok = 0
    /\ mongos_down = 0
    /\ shard_i = 0
    /\ shard_client = None
    /\ shard_rs_status = NoneRec
    /\ config_host = NoneRec
    /\ cfg_client = None
    /\ cfg_status = NoneRec

IdleExt == IdleMain /\ IdleNode /\ IdleDt /\ IdleSh

----------------------------------------------------------------------------
(* The aggregator alone: any sequence of proposed findings.                *)

InitAgg ==
    /\ output = NewOutput
    /\ IdleCfg /\ IdleRun /\ IdleRs /\ IdleTe /\ IdleExt

\* One call of add_message, with any severity.
Propose ==
    /\ Len(output.messages) < MaxFindings
    /\ \E s \in Severities :
          output' = add_message(output, s, <<"finding", "-">>)
    /\ UNCHANGED <<cfgVars, runVars, rsVars, teVars, extVars>>

NextAgg == Propose

SpecAgg == InitAgg /\ [][NextAgg]_vars

\* The severities proposed so far.
Proposed == {output.messages[i].sev : i \in DOMAIN output.messages}

\* C1: once the status is Warning or Critical, no later proposal lowers it
\* or replaces it with Unknown; a Critical status stays Critical.
C1_NeverLowered ==
    [][output.status \in {NAGIOS_WARNING, NAGIOS_CRITICAL}
         => /\ output'.status \in {NAGIOS_WARNING, NAGIOS_CRITICAL}
            /\ output'.status >= output.status]_vars

\* Critical was recorded first, and Unknown and Ok were proposed after it.
C1_Witness ==
    /\ Len(output.messages) >= 3
    /\ output.messages[1].sev = NAGIOS_CRITICAL
    /\ \E i, j \in 2..Len(output.messages) :
          /\ output.messages[i].sev = NAGIOS_UNKNOWN
          /\ output.messages[j].sev = NAGIOS_OK
    /\ output.status = NAGIOS_CRITICAL

\* The status a monotonic maximum over the proposed severities would give.
MaxSeverity(S) ==
    IF NAGIOS_CRITICAL \in S THEN NAGIOS_CRITICAL
    ELSE IF NAGIOS_WARNING \in S THEN NAGIOS_WARNING
    ELSE IF NAGIOS_UNKNOWN \in S THEN NAGIOS_UNKNOWN
    ELSE NAGIOS_OK

\* C2: the status depends only on which severities were proposed, not on
\* their order: Critical if any Critical was proposed, else Warning if any
\* Warning, else Unknown if any Unknown, else Ok.
C2_OrderIndependent == output.status = MaxSeverity(Proposed)

----------------------------------------------------------------------------
(* ThresholdEngine.                                                        *)

\* ThresholdEngine.check with strict comparisons in mode above.
ThresholdEngine_check_Strict(th, metric_key, value, o, node_name) ==
    IF metric_key \notin DOMAIN th THEN [output |-> o, ret |-> FALSE]
    ELSE LET cfg == th[metric_key]
             mode == IF "mode" \in DOMAIN cfg THEN cfg.mode ELSE "above"
         IN  IF mode = "below"
             THEN IF "critical" \in DOMAIN cfg /\ value <= cfg.critical
                  THEN [output |-> add_message(o, NAGIOS_CRITICAL,
                                        <<"threshold_critical", node_name>>),
                        ret |-> TRUE]
                  ELSE IF "warning" \in DOMAIN cfg /\ value <= cfg.warning
                  THEN [output |-> add_message(o, NAGIOS_WARNING,
                                        <<"threshold_warning", node_name>>),
                        ret |-> TRUE]
                  ELSE [output |-> o, ret |-> FALSE]
             ELSE IF "critical" \in DOMAIN cfg /\ value > cfg.critical
                  THEN [output |-> add_message(o, NAGIOS_CRITICAL,
                                        <<"threshold_critical", node_name>>),
                        ret |-> TRUE]
                  ELSE IF "warning" \in DOMAIN cfg /\ value > cfg.warning
                  THEN [output |-> add_message(o, NAGIOS_WARNING,
                                        <<"threshold_warning", node_name>>),
                        ret |-> TRUE]
                  ELSE [output |-> o, ret |-> FALSE]

\* ThresholdEngine.check: the output object after the call and the value
\* returned. A threshold that is absent (or null) reads as None.
ThresholdEngine_check(th, metric_key, value, o, node_name) ==
    IF metric_key \notin DOMAIN th THEN [output |-> o, ret |-> FALSE]
    ELSE LET cfg == th[metric_key]
             mode == IF "mode" \in DOMAIN cfg THEN cfg.mode ELSE "above"
         IN  IF mode = "below"
             THEN IF "critical" \in DOMAIN cfg /\ value <= cfg.critical
                  THEN [output |-> add_message(o, NAGIOS_CRITICAL,
                                        <<"threshold_critical", node_name>>),
                        ret |-> TRUE]
                  ELSE IF "warning" \in DOMAIN cfg /\ value <= cfg.warning
                  THEN [output |-> add_message(o, NAGIOS_WARNING,
                                        <<"threshold_warning", node_name>>),
                        ret |-> TRUE]
                  ELSE [output |-> o, ret |-> FALSE]
             ELSE IF "critical" \in DOMAIN cfg /\ value >= cfg.critical
                  THEN [output |-> add_message(o, NAGIOS_CRITICAL,
                                        <<"threshold_critical", node_name>>),
                        ret |-> TRUE]
                  ELSE IF "warning" \in DOMAIN cfg /\ value >= cfg.warning
                  THEN [output |-> add_message(o, NAGIOS_WARNING,
                                        <<"threshold_warning", node_name>>),
                        ret |-> TRUE]
                  ELSE [output |-> o, ret |-> FALSE]

\* The metric keys checked, the thresholds a policy may set and the values
\* a metric may take.
MetricKeys == {"conn_usage_pct", "oplog_window"}
ThresholdValues == {1, 3}
MetricValues == 0 .. MaxValue

\* A policy dict: warning and critical each absent (Absent) or set, mode
\* absent (None), "above" or "below".
Absent == -1

Policy(w, c, m) ==
    [f \in (IF w = Absent THEN {} ELSE {"warning"})
           \cup (IF c = Absent THEN {} ELSE {"critical"})
           \cup (IF m = None THEN {} ELSE {"mode"})
        |-> CASE f = "warning" -> w
              [] f = "critical" -> c
              [] f = "mode" -> m]

Policies ==
    { Policy(w, c, m) : w \in ThresholdValues \cup {Absent},
                        c \in ThresholdValues \cup {Absent},
                        m \in {None, "above", "below"} }

\* The threshold configurations: none, or a policy for conn_usage_pct
\* (oplog_window is never configured).
ThresholdConfigs ==
    {EmptyDict} \cup
    { [k \in {"conn_usage_pct"} |-> cfg] : cfg \in Policies }

InitTe ==
    /\ output = NewOutput
    /\ thresholds \in ThresholdConfigs
    /\ te_call = NoCall
    /\ te_ret = FALSE
    /\ IdleCfg /\ IdleRun /\ IdleRs /\ IdleExt

\* One call te.check(metric_key, value, output, node_name).
TeCheck ==
    /\ te_call.n < MaxChecks
    /\ \E k \in MetricKeys, v \in MetricValues :
          LET r == ThresholdEngine_check(thresholds, k, v, output, "h1:27017")
          IN  /\ output' = r.output
              /\ te_ret' = r.ret
              /\ te_call' = [n |-> te_call.n + 1, metric_key |-> k, value |-> v]
    /\ UNCHANGED <<thresholds, cfgVars, runVars, rsVars, extVars>>

NextTe == TeCheck

SpecTe == InitTe /\ [][NextTe]_vars

\* The severity the evaluation rule asks for, "none" when it asks for
\* no finding.
Crossed(mode, value, bound) ==
    IF mode = "below" THEN value <= bound ELSE value >= bound

Evaluate(th, key, value) ==
    IF key \notin DOMAIN th THEN "none"
    ELSE LET cfg == th[key]
             mode == IF "mode" \in DOMAIN cfg /\ cfg.mode = "below"
                     THEN "below" ELSE "above"
         IN  IF "critical" \in DOMAIN cfg /\ Crossed(mode, value, cfg.critical)
             THEN "critical"
             ELSE IF "warning" \in DOMAIN cfg /\ Crossed(mode, value, cfg.warning)
             THEN "warning"
             ELSE "none"

\* C8: a call of ThresholdEngine.check proposes Critical if critical is set
\* and crossed, else Warning if warning is set and crossed, else nothing
\* (>= in mode above, <= in mode below); with no policy for the key it
\* leaves the aggregator unchanged; at most one finding is proposed, and
\* the call returns TRUE iff one was.
C8_ThresholdRule ==
    [][te_call'.n = te_call.n + 1 =>
        LET e == Evaluate(thresholds, te_call'.metric_key, te_call'.value)
            sev == IF e = "critical" THEN NAGIOS_CRITICAL ELSE NAGIOS_WARNING
        IN  IF e = "none"
            THEN output' = output /\ te_ret' = FALSE
            ELSE /\ Len(output'.messages) = Len(output.messages) + 1
                 /\ output'.messages[Len(output'.messages)].sev = sev
                 /\ SubSeq(output'.messages, 1, Len(output.messages)) = output.messages
                 /\ output'.status = set_status(output, sev).status
                 /\ te_ret' = TRUE]_vars

\* Both bounds are crossed at once in mode above, warning below critical,
\* and the one finding proposed is Critical.
C8_Witness ==
    /\ te_call.n = 1
    /\ te_call.metric_key \in DOMAIN thresholds
    /\ DOMAIN thresholds[te_call.metric_key] = {"warning", "critical"}
    /\ thresholds[te_call.metric_key].warning < thresholds[te_call.metric_key].critical
    /\ te_call.value >= thresholds[te_call.metric_key].critical
    /\ te_ret
    /\ Len(output.messages) = 1
    /\ output.messages[1].sev = NAGIOS_CRITICAL
    /\ output.status = NAGIOS_CRITICAL


----------------------------------------------------------------------------
(* The servers' answers and the configurations the model draws from.       *)

\* The exceptions a connection or a command may raise: pymongo's
\* ConnectionFailure (AutoReconnect included), ServerSelectionTimeoutError,
\* ConfigurationError and OperationFailure, and any other exception.
Errors == {"ConnectionFailure", "ServerSelectionTimeoutError",
           "ConfigurationError", "OperationFailure", "Exception"}

\* The ways a direct probe of a node fails: refused, and timed out.
ProbeErrors == {"ConnectionFailure", "ServerSelectionTimeoutError"}

\* The hosts a URI may name, and the members a cluster may report, in the
\* order it reports them.
UriNodes == {"h1:27017", "h2:27017"}
ClusterNodes == <<"h1:27017", "h2:27017", "h3:27017">>

HostLists(n) == UNION { [1..k -> UriNodes] : k \in 1..n }

ExpectedNames == {None, "RS0"}
UriRsParams == {None, "rs0"}
RsNames == {"rs0", "RS0"}

\* What replSetGetStatus reports of one member: every state with either
\* health (SpecQuorum); a healthy member in a state other than DOWN, a member
\* that is DOWN and unhealthy, and an unhealthy arbiter (Spec, SpecRs).
MemberStates == {PRIMARY, SECONDARY, RECOVERING, ARBITER, DOWN}
AllMemberViews == [state : MemberStates, health : {0, 1}]
MemberViews ==
    { v \in AllMemberViews :
         \/ v.health = 1 /\ v.state # DOWN
         \/ v.health = 0 /\ v.state \in {DOWN, ARBITER} }

\* The member list of a snapshot in which member i is absent (NoneRec) or
\* reported as f[i].
MembersOf(f) ==
    LET all == [i \in DOMAIN ClusterNodes |->
                   IF f[i] = NoneRec THEN NoneRec
                   ELSE [name |-> ClusterNodes[i], state |-> f[i].state,
                         health |-> f[i].health]]
        Present(m) == m # NoneRec
    IN  SelectSeq(all, Present)

RsMemberLists ==
    { MembersOf(f) : f \in [DOMAIN ClusterNodes -> MemberViews \cup {NoneRec}] }

RsStatuses == [set : RsNames, members : RsMemberLists]

\* The answers to hello / isMaster.
HelloAnswers == [msg : {"", "isdbgrid"}, setName : {None, "", "rs0"}]

\* The outcome of a handshake command: an answer, or an exception.
Outcomes ==
    { [err |-> None, reply |-> a] : a \in HelloAnswers }
    \cup { [err |-> e, reply |-> NoneRec] : e \in Errors }

Cmd(cmd, node) == [cmd |-> cmd, node |-> node]

----------------------------------------------------------------------------
(* TopologyDetector.                                                       *)

\* The classification with the replica-set name looked at before the
\* router sentinel.
Topology_NameFirst(h) ==
    IF h.setName \notin {None, ""} THEN REPLICASET
    ELSE IF h.msg = "isdbgrid" THEN SHARDED
    ELSE STANDALONE

\* The classification of a handshake answer.
Topology(h) ==
    IF h.msg = "isdbgrid" THEN SHARDED
    ELSE IF h.setName \notin {None, ""} THEN REPLICASET
    ELSE STANDALONE

\* detect without the fallback to isMaster.
detect_NoFallback(r1, r2) ==
    IF r1.err = None
    THEN [err |-> None, hello |-> r1.reply, cmds |-> <<Cmd("hello", "uri")>>]
    ELSE [err |-> r1.err, hello |-> NoneRec, cmds |-> <<Cmd("hello", "uri")>>]

\* TopologyDetector.detect, given the outcome r1 of hello and the outcome r2
\* isMaster would have: the exception raised (None if none), the answer
\* read and the commands issued.
detect(r1, r2) ==
    IF r1.err = None
    THEN [err |-> None, hello |-> r1.reply, cmds |-> <<Cmd("hello", "uri")>>]
    ELSE IF r1.err = "OperationFailure"
    THEN [err |-> r2.err, hello |-> r2.reply,
          cmds |-> <<Cmd("hello", "uri"), Cmd("isMaster", "uri")>>]
    ELSE [err |-> r1.err, hello |-> NoneRec, cmds |-> <<Cmd("hello", "uri")>>]

----------------------------------------------------------------------------
(* AvailabilityChecker.check.                                              *)

\* The except clauses of check with every exception reported as Unknown.
ErrorSeverity_AllUnknown(e) == NAGIOS_UNKNOWN

\* The except clauses of check: the severity an exception of connect or
\* detect is reported with.
ErrorSeverity(e) ==
    IF e \in {"ConnectionFailure", "ServerSelectionTimeoutError", "ConfigurationError"}
    THEN NAGIOS_CRITICAL
    ELSE NAGIOS_UNKNOWN

ErrorFinding(e) ==
    IF ErrorSeverity(e) = NAGIOS_CRITICAL THEN "cannot_connect" ELSE "unexpected_error"

\* The position the dispatch of check moves to.
Dispatch(t) ==
    CASE t = STANDALONE -> "standalone"
      [] t = REPLICASET -> "rs_start"
      [] t = SHARDED -> "sharded"

\* check, up to the dispatch on the topology: connect, detect, and the
\* except clauses.
Check ==
    /\ pc = "start"
    /\ \E c \in {None} \cup Errors, r1 \in Outcomes, r2 \in Outcomes :
          LET d == IF c # None
                   THEN [err |-> c, hello |-> NoneRec, cmds |-> <<>>]
                   ELSE detect(r1, r2)
          IN  /\ cmds' = cmds \o d.cmds
              /\ hello_error' = IF c # None THEN None ELSE r1.err
              /\ IF d.err # None
                 THEN /\ check_error' = d.err
                      /\ output' = add_message(output, ErrorSeverity(d.err),
                                               <<ErrorFinding(d.err), "-">>)
                      /\ pc' = "done"
                      /\ UNCHANGED <<hello, topology>>
                 ELSE /\ hello' = d.hello
                      /\ topology' = Topology(d.hello)
                      /\ pc' = Dispatch(Topology(d.hello))
                      /\ UNCHANGED <<check_error, output>>
    /\ UNCHANGED <<cfgVars, rsVars, teVars, extVars>>

\* _check_standalone
CheckStandalone ==
    /\ pc = "standalone"
    /\ \E r \in {None} \cup Errors :
          output' = IF r = None
                    THEN add_message(output, NAGIOS_OK, <<"standalone_reachable", "-">>)
                    ELSE add_message(output, NAGIOS_CRITICAL,
                                     <<"standalone_unreachable", "-">>)
    /\ cmds' = Append(cmds, Cmd("ping", "uri"))
    /\ pc' = "done"
    /\ UNCHANGED <<hello, hello_error, topology, check_error, cfgVars, rsVars,
                   teVars, extVars>>

----------------------------------------------------------------------------
(* AvailabilityChecker._check_replicaset.                                  *)

\* MongoConnectionManager.get_replicaset_from_uri
get_replicaset_from_uri(param) ==
    IF param \in {None, ""} THEN None ELSE param

\* The expected name, read from the URI only.
ExpectedName_UriOnly(explicit, param) == get_replicaset_from_uri(param)

\* expected_name = self.expected_rs_name or get_replicaset_from_uri()
ExpectedName(explicit, param) ==
    IF explicit \in {None, ""} THEN get_replicaset_from_uri(param) ELSE explicit

\* if expected_name and rs_name != expected_name
NameMismatch(expected, rs_name) ==
    expected \notin {None, ""} /\ rs_name # expected

\* indirect_members: the dict from member name to what the cluster reports
\* of it; a name reported twice keeps its last entry.
IndirectMembers(members) ==
    [n \in {members[i].name : i \in DOMAIN members} |->
        LET last == CHOOSE i \in DOMAIN members :
                        /\ members[i].name = n
                        /\ \A j \in DOMAIN members : members[j].name = n => j <= i
        IN  [state |-> members[last].state, health |-> members[last].health]]

\* indirect_members.get(node_name, None)
IndirectInfo(members, node_name) ==
    IF node_name \in DOMAIN IndirectMembers(members)
    THEN IndirectMembers(members)[node_name]
    ELSE NoneRec

\* The loop over the members that counts healthy voters, counting
\* Recovering members too.
RECURSIVE CountHealthyVoting_WithRecovering(_)
CountHealthyVoting_WithRecovering(members) ==
    IF members = <<>> THEN 0
    ELSE (IF Head(members).health = 1
             /\ Head(members).state \in {PRIMARY, SECONDARY, ARBITER, RECOVERING}
          THEN 1 ELSE 0) + CountHealthyVoting_WithRecovering(Tail(members))

\* The loop over the members that counts healthy voters.
RECURSIVE CountHealthyVoting(_)
CountHealthyVoting(members) ==
    IF members = <<>> THEN 0
    ELSE (IF Head(members).health = 1
             /\ Head(members).state \in {PRIMARY, SECONDARY, ARBITER}
          THEN 1 ELSE 0) + CountHealthyVoting(Tail(members))

\* The quorum with half of the members taken for a majority.
ComputeQuorum_HalfIsEnough(members) ==
    LET voting_members == Len(members)
        healthy_voting == CountHealthyVoting(members)
        majority == voting_members \div 2
    IN  [voting_members |-> voting_members, healthy_voting |-> healthy_voting,
         majority |-> majority, quorum_ok |-> healthy_voting >= majority]

\* The quorum counted over the members the URI names only.
ComputeQuorum_ConfiguredOnly(members) ==
    LET InUri(m) == \E i \in DOMAIN uri_hosts : uri_hosts[i] = m.name
        configured == SelectSeq(members, InUri)
        voting_members == Len(configured)
        healthy_voting == CountHealthyVoting(configured)
        majority == (voting_members \div 2) + 1
    IN  [voting_members |-> voting_members, healthy_voting |-> healthy_voting,
         majority |-> majority, quorum_ok |-> healthy_voting >= majority]

\* voting_members, healthy_voting, majority and quorum_ok of a member list.
ComputeQuorum(members) ==
    LET voting_members == Len(members)
        healthy_voting == CountHealthyVoting(members)
        majority == (voting_members \div 2) + 1
    IN  [voting_members |-> voting_members, healthy_voting |-> healthy_voting,
         majority |-> majority, quorum_ok |-> healthy_voting >= majority]

\* The per-node branches, with an unreachable healthy member always taken
\* for a network issue.
Classify_NoArbiterRule(d_ok, info) ==
    IF d_ok
    THEN IF info # NoneRec
         THEN IF info.health = 1 /\ info.state \in {PRIMARY, SECONDARY, ARBITER}
              THEN "healthy" ELSE "split_brain"
         ELSE "misconfigured"
    ELSE IF info # NoneRec
         THEN IF info.health = 1 /\ info.state \in {PRIMARY, SECONDARY, ARBITER}
              THEN "network_issue" ELSE "down"
         ELSE "down_unknown"

\* The per-node branches, with a reachable node taken for healthy whether
\* or not the cluster reports it a healthy member.
Classify_TrustDirect(d_ok, info) ==
    IF d_ok THEN "healthy"
    ELSE IF info # NoneRec /\ info.state = ARBITER /\ info.health = 1
    THEN "arbiter_segregated"
    ELSE IF info # NoneRec
    THEN IF info.health = 1 /\ info.state \in {PRIMARY, SECONDARY}
         THEN "network_issue" ELSE "down"
    ELSE "down_unknown"

\* The branch the per-node code takes, given the result of the direct probe
\* and the node's entry in indirect_members.
Classify(d_ok, info) ==
    LET is_arbiter == IF info # NoneRec THEN info.state = ARBITER ELSE FALSE
    IN  IF d_ok
        THEN IF info # NoneRec
             THEN IF info.health = 1 /\ info.state \in {PRIMARY, SECONDARY, ARBITER}
                  THEN "healthy" ELSE "split_brain"
             ELSE "misconfigured"
        ELSE IF is_arbiter /\ info # NoneRec /\ info.health = 1
             THEN "arbiter_segregated"
             ELSE IF info # NoneRec
             THEN IF info.health = 1 /\ info.state \in {PRIMARY, SECONDARY}
                  THEN "network_issue" ELSE "down"
             ELSE "down_unknown"

\* The observation 1 kept for the nodes that were reached.
OkBranches_HealthyOnly == {"healthy"}

\* The branches that count the node in nodes_ok and emit the observation 1.
OkBranches == {"healthy", "arbiter_segregated"}

\* The status command asked again after it raised.
AfterStatus_Retry(err) == IF err = None THEN "rs_loop" ELSE "rs_start"

\* Where _check_replicaset goes after replSetGetStatus: both except
\* clauses return.
AfterStatus(err) == IF err = None THEN "rs_loop" ELSE "done"

\* _check_replicaset, up to the per-node loop: replSetGetStatus, the name
\* check, indirect_members and the quorum.
RsGetStatus ==
    /\ pc = "rs_start"
    /\ cmds' = Append(cmds, Cmd("replSetGetStatus", "uri"))
    /\ \/ \E e \in Errors :
             /\ output' = add_message(output, NAGIOS_CRITICAL,
                    <<IF e = "OperationFailure" THEN "cannot_get_status"
                      ELSE "status_error", "-">>)
             /\ pc' = AfterStatus(e)
             /\ UNCHANGED rsVars
       \/ \E rs \in RsStatuses :
             /\ rs_status' = rs
             /\ IF NameMismatch(ExpectedName(expected_rs_name, uri_replicaSet), rs.set)
                THEN /\ output' = add_message(output, NAGIOS_CRITICAL,
                                              <<"rs_name_mismatch", "-">>)
                     /\ pc' = "done"
                     /\ UNCHANGED quorum
                ELSE /\ quorum' = ComputeQuorum(rs.members)
                     /\ pc' = AfterStatus(None)
                     /\ UNCHANGED output
             /\ UNCHANGED <<nodes_ok, nodes_down, node_i, direct_ok, direct_error,
                            indirect_info>>
    /\ UNCHANGED <<hello, hello_error, topology, check_error, cfgVars, teVars,
                   extVars>>

\* The loop staying on a node whose probe failed, to probe it again.
NextNode_RetryOnFailure(i, err) == IF err = None THEN i + 1 ELSE i

\* The per-node loops (for host, port in uri_hosts): the number of hosts
\* handled after an iteration, whether or not the probe raised.
NextNode(i, err) == i + 1

\* One iteration of the loop over uri_hosts: the direct probe of the node
\* and the branch its result and the cluster's view select.
RsNode ==
    /\ pc = "rs_loop"
    /\ node_i < Len(uri_hosts)
    /\ LET node_name == uri_hosts[node_i + 1]
           info == IndirectInfo(rs_status.members, node_name)
       IN  /\ indirect_info' = info
           /\ cmds' = Append(cmds, Cmd("ping", node_name))
           /\ \E r \in {None} \cup ProbeErrors :
                 LET d_ok == (r = None)
                     branch == Classify(d_ok, info)
                     o == IF branch = "healthy" \/ branch = "arbiter_segregated"
                          THEN output
                          ELSE add_message(output, NAGIOS_CRITICAL,
                                           <<branch, node_name>>)
                 IN  /\ direct_ok' = d_ok
                     /\ direct_error' = r
                     /\ nodes_ok' = IF branch \in OkBranches
                                    THEN nodes_ok + 1 ELSE nodes_ok
                     /\ nodes_down' = IF branch \in OkBranches
                                      THEN nodes_down ELSE nodes_down + 1
                     /\ output' = add_perfdata(o, "state", node_name,
                                      IF branch \in OkBranches THEN 1 ELSE 0)
                     /\ node_i' = NextNode(node_i, r)
    /\ UNCHANGED <<pc, hello, hello_error, topology, check_error, rs_status,
                   quorum, cfgVars, teVars, extVars>>

\* The summary with the Critical finding kept for a check in which no
\* node is ok.
Summary_AllDown(o, n_ok, n_down, total) ==
    IF n_down = total
    THEN add_message(o, NAGIOS_CRITICAL, <<"nodes_down", "-">>)
    ELSE IF n_ok = total
    THEN add_message(o, NAGIOS_OK, <<"all_healthy", "-">>)
    ELSE o

\* The summary finding: if nodes_down > 0 ... elif nodes_ok == total_uri_nodes
Summary(o, n_ok, n_down, total) ==
    IF n_down > 0
    THEN add_message(o, NAGIOS_CRITICAL, <<"nodes_down", "-">>)
    ELSE IF n_ok = total
    THEN add_message(o, NAGIOS_OK, <<"all_healthy", "-">>)
    ELSE o

\* The summary, the quorum finding and the closing perfdata.
RsSummary ==
    /\ pc = "rs_loop"
    /\ node_i = Len(uri_hosts)
    /\ LET total_uri_nodes == Len(uri_hosts)
           o1 == Summary(output, nodes_ok, nodes_down, total_uri_nodes)
           o2 == IF ~quorum.quorum_ok
                 THEN add_message(o1, NAGIOS_CRITICAL, <<"quorum_lost", "-">>)
                 ELSE o1
           o3 == add_perfdata(o2, "nodes_ok", "-", nodes_ok)
           o4 == add_perfdata(o3, "nodes_down", "-", nodes_down)
       IN  output' = add_perfdata(o4, "quorum", "-",
                                  IF quorum.quorum_ok THEN 1 ELSE 0)
    /\ pc' = "done"
    /\ UNCHANGED <<cmds, hello, hello_error, topology, check_error, cfgVars,
                   rsVars, teVars, extVars>>

----------------------------------------------------------------------------
(* The specifications of the availability check.                           *)

InitConfig(n) ==
    /\ uri_hosts \in HostLists(n)
    /\ expected_rs_name \in ExpectedNames
    /\ uri_replicaSet \in UriRsParams

\* A whole run of AvailabilityChecker.check.
Init ==
    /\ output = NewOutput
    /\ InitConfig(MaxRunHosts)
    /\ pc = "start"
    /\ cmds = <<>>
    /\ hello = NoneRec
    /\ hello_error = None
    /\ topology = None
    /\ check_error = None
    /\ IdleRs /\ IdleTe /\ IdleExt

Next == Check \/ CheckStandalone \/ RsGetStatus \/ RsNode \/ RsSummary

Spec == Init /\ [][Next]_vars

\* _check_replicaset, from its call by check on a replica-set topology.
InitRs ==
    /\ output = NewOutput
    /\ InitConfig(MaxHosts)
    /\ pc = "rs_start"
    /\ cmds = <<Cmd("hello", "uri")>>
    /\ hello = [msg |-> "", setName |-> "rs0"]
    /\ hello_error = None
    /\ topology = REPLICASET
    /\ check_error = None
    /\ IdleRs /\ IdleTe /\ IdleExt

NextRs == RsGetStatus \/ RsNode \/ RsSummary

SpecRs == InitRs /\ [][NextRs]_vars

\* The quorum computation alone, on any member list.
InitQuorum ==
    /\ output = NewOutput
    /\ IdleCfg /\ IdleTe /\ IdleExt
    /\ pc = "quorum"
    /\ cmds = <<>>
    /\ hello = NoneRec
    /\ hello_error = None
    /\ topology = REPLICASET
    /\ check_error = None
    /\ rs_status \in [set : {"rs0"},
                      members : UNION { [1..n -> AllMemberViews] : n \in 0..MaxMembers }]
    /\ quorum = NoQuorum
    /\ nodes_ok = 0
    /\ nodes_down = 0
    /\ node_i = 0
    /\ direct_ok = FALSE
    /\ direct_error = None
    /\ indirect_info = NoneRec

QuorumStep ==
    /\ pc = "quorum"
    /\ quorum' = ComputeQuorum(rs_status.members)
    /\ pc' = "quorum_done"
    /\ UNCHANGED <<output, cmds, hello, hello_error, topology, check_error,
                   cfgVars, teVars, extVars, rs_status, nodes_ok, nodes_down, node_i, direct_ok,
                   direct_error, indirect_info>>

NextQuorum == QuorumStep

SpecQuorum == InitQuorum /\ [][NextQuorum]_vars

----------------------------------------------------------------------------
(* The claims about the replica-set check.                                 *)

\* The decision table: the classification of a node from the direct probe
\* and the cluster's view of it, first matching rule winning.
DecisionTable(reachable, present, health, state) ==
    IF reachable /\ present /\ health = 1 /\ state \in {PRIMARY, SECONDARY, ARBITER}
    THEN "Healthy"
    ELSE IF reachable /\ present THEN "SplitBrain"
    ELSE IF reachable THEN "MisconfiguredOrUnknown"
    ELSE IF present /\ state = ARBITER /\ health = 1 THEN "HealthyArbiterSegregated"
    ELSE IF present /\ state # ARBITER /\ health = 1 /\ state \in {PRIMARY, SECONDARY}
    THEN "NetworkIssue"
    ELSE "Down"

\* The classification a finding of the per-node loop reports.
FindingClass(kind) ==
    CASE kind = "split_brain" -> "SplitBrain"
      [] kind = "misconfigured" -> "MisconfiguredOrUnknown"
      [] kind = "network_issue" -> "NetworkIssue"
      [] kind \in {"down", "down_unknown"} -> "Down"
      [] OTHER -> "none"

\* Whether the cluster reports host, and what it reports of it.
Reported(host) == \E i \in DOMAIN rs_status.members : rs_status.members[i].name = host
ViewOf(host) ==
    rs_status.members[CHOOSE i \in DOMAIN rs_status.members :
                          rs_status.members[i].name = host]

\* The classification the decision table gives the node an iteration of
\* the loop has just handled; the probe reached it iff it raised nothing.
ClassOfStep(host, err) ==
    IF Reported(host)
    THEN DecisionTable(err = None, TRUE, ViewOf(host).health, ViewOf(host).state)
    ELSE DecisionTable(err = None, FALSE, 0, 0)

\* C3: every iteration of the per-node loop follows the decision table:
\* a Healthy node raises no finding; a SplitBrain, MisconfiguredOrUnknown,
\* NetworkIssue or Down node raises exactly one Critical finding of its
\* class; a probe that fails in any way, a timeout included, counts as
\* unreachable.
C3_DecisionTable ==
    [][node_i' = node_i + 1 =>
        LET host == uri_hosts[node_i']
            class == ClassOfStep(host, direct_error')
        IN  /\ direct_ok' = (direct_error' = None)
            /\ class # "HealthyArbiterSegregated" =>
                 IF class = "Healthy"
                 THEN /\ output'.messages = output.messages
                      /\ output'.status = output.status
                 ELSE /\ Len(output'.messages) = Len(output.messages) + 1
                      /\ SubSeq(output'.messages, 1, Len(output.messages))
                            = output.messages
                      /\ LET f == output'.messages[Len(output'.messages)]
                         IN  /\ f.sev = NAGIOS_CRITICAL
                             /\ f.node = host
                             /\ FindingClass(f.kind) = class
                      /\ output'.status = NAGIOS_CRITICAL]_vars

\* A member the cluster reports healthy and Secondary timed out on the
\* direct probe, and the finding raised for it is the network issue.
C3_Witness ==
    /\ pc = "rs_loop"
    /\ node_i >= 1
    /\ direct_error = "ServerSelectionTimeoutError"
    /\ indirect_info # NoneRec
    /\ indirect_info = [state |-> SECONDARY, health |-> 1]
    /\ output.messages # <<>>
    /\ output.messages[Len(output.messages)].kind = "network_issue"
    /\ output.messages[Len(output.messages)].node = uri_hosts[node_i]
    /\ output.status = NAGIOS_CRITICAL

\* The members other than host that are healthy voters.
OtherHealthyVoters(host) ==
    { i \in DOMAIN rs_status.members :
         /\ rs_status.members[i].name # host
         /\ rs_status.members[i].health = 1
         /\ rs_status.members[i].state \in {PRIMARY, SECONDARY, ARBITER} }

\* C4: an arbiter that is unreachable directly but reported healthy by the
\* cluster raises no finding and leaves the status alone, its health
\* observation is 1, it is one of the healthy voters of the quorum, and it
\* is not recorded as directly reachable.
C4_ArbiterSegregated ==
    [][(/\ node_i' = node_i + 1
        /\ direct_error' # None
        /\ Reported(uri_hosts[node_i'])
        /\ ViewOf(uri_hosts[node_i']).state = ARBITER
        /\ ViewOf(uri_hosts[node_i']).health = 1)
       => /\ output'.messages = output.messages
          /\ output'.status = output.status
          /\ output'.perfdata = Append(output.perfdata,
                [label |-> "state", node |-> uri_hosts[node_i'], value |-> 1])
          /\ quorum.healthy_voting
                = Cardinality(OtherHealthyVoters(uri_hosts[node_i'])) + 1
          /\ ~direct_ok']_vars

\* The only host of the URI is a healthy arbiter the probe did not reach: no
\* finding, status Ok, observation 1.
C4_Witness ==
    /\ pc = "rs_loop"
    /\ node_i = 1
    /\ ~direct_ok
    /\ direct_error # None
    /\ indirect_info = [state |-> ARBITER, health |-> 1]
    /\ output.messages = <<>>
    /\ output.status = NAGIOS_OK
    /\ output.perfdata = <<[label |-> "state", node |-> uri_hosts[1], value |-> 1]>>
    /\ quorum.healthy_voting >= 1

\* The healthy voters of a member list, and whether they are a majority.
HealthyVoters(members) ==
    { i \in DOMAIN members :
         members[i].health = 1 /\ members[i].state \in {PRIMARY, SECONDARY, ARBITER} }
Unhealthy(members) == DOMAIN members \ HealthyVoters(members)

\* C5: votingMembers is the number n of members, majority is
\* floor(n/2)+1, healthyVoting counts exactly the members with health 1 and
\* state Primary, Secondary or Arbiter, and quorumOk holds iff
\* healthyVoting >= majority, that is iff n-k >= floor(n/2)+1 for k
\* unhealthy members.
C5_Quorum ==
    pc = "quorum_done" =>
        LET m == rs_status.members
            n == Len(m)
            k == Cardinality(Unhealthy(m))
        IN  /\ quorum.voting_members = n
            /\ 2 * quorum.majority > n
            /\ 2 * (quorum.majority - 1) <= n
            /\ quorum.healthy_voting = Cardinality(HealthyVoters(m))
            /\ quorum.quorum_ok <=> (quorum.healthy_voting >= quorum.majority)
            /\ quorum.quorum_ok <=> (n - k >= (n \div 2) + 1)

\* Four members, all reported with health 1, two of them Recovering: they
\* count as voting members only, and the quorum is lost with 2 of 4.
C5_Witness ==
    /\ pc = "quorum_done"
    /\ Len(rs_status.members) = 4
    /\ \A i \in DOMAIN rs_status.members : rs_status.members[i].health = 1
    /\ Cardinality({i \in DOMAIN rs_status.members :
                       rs_status.members[i].state = RECOVERING}) = 2
    /\ quorum = [voting_members |-> 4, healthy_voting |-> 2, majority |-> 3,
                 quorum_ok |-> FALSE]

\* The replica-set check ran to its end: the status was obtained, the name
\* check passed, and the closing perfdata is written.
RsCompleted ==
    /\ pc = "done"
    /\ \E i \in DOMAIN output.perfdata : output.perfdata[i].label = "quorum"

\* A configured node was classified other than Healthy or
\* HealthyArbiterSegregated.
SomeNodeNotHealthy ==
    \E i \in DOMAIN output.messages :
        FindingClass(output.messages[i].kind) # "none"

QuorumHolds(members) == 2 * Cardinality(HealthyVoters(members)) > Len(members)

HasFinding(sev, kind) ==
    \E i \in DOMAIN output.messages :
        output.messages[i].sev = sev /\ output.messages[i].kind = kind

\* C6: a completed replica-set check is Critical whenever a configured
\* node is classified other than Healthy / HealthyArbiterSegregated, and
\* whenever the quorum is lost, then with a quorum-lost finding; it is Ok
\* only when every configured node is healthy and the quorum holds.
C6_OverallSeverity ==
    RsCompleted =>
        /\ SomeNodeNotHealthy => output.status = NAGIOS_CRITICAL
        /\ ~QuorumHolds(rs_status.members) =>
              /\ output.status = NAGIOS_CRITICAL
              /\ HasFinding(NAGIOS_CRITICAL, "quorum_lost")
        /\ output.status = NAGIOS_OK =>
              /\ ~SomeNodeNotHealthy
              /\ nodes_ok = Len(uri_hosts)
              /\ QuorumHolds(rs_status.members)
        /\ QuorumHolds(rs_status.members) => ~HasFinding(NAGIOS_CRITICAL, "quorum_lost")

\* Three members, one reported unhealthy yet reached directly: SplitBrain,
\* the run Critical, the quorum still held by 2 of 3.
C6_Witness ==
    /\ RsCompleted
    /\ Len(rs_status.members) = 3
    /\ Cardinality(HealthyVoters(rs_status.members)) = 2
    /\ quorum.quorum_ok
    /\ output.perfdata[Len(output.perfdata)]
          = [label |-> "quorum", node |-> "-", value |-> 1]
    /\ HasFinding(NAGIOS_CRITICAL, "split_brain")
    /\ ~HasFinding(NAGIOS_CRITICAL, "quorum_lost")
    /\ output.status = NAGIOS_CRITICAL

\* The expected replica-set name: the explicit option, else the URI
\* parameter, else none.
ConfiguredName ==
    IF expected_rs_name # None THEN expected_rs_name ELSE uri_replicaSet

\* C7: once the cluster status is obtained, an expected name that differs
\* from the reported one makes the run Critical, with the name finding as
\* its only finding; with no expected name, or an equal one, there is no
\* name finding.
C7_NameValidation ==
    rs_status # NoneRec =>
        /\ (ConfiguredName # None /\ rs_status.set # ConfiguredName) =>
              /\ output.status = NAGIOS_CRITICAL
              /\ output.messages
                    = <<Finding(NAGIOS_CRITICAL, "rs_name_mismatch", "-")>>
              /\ pc = "done"
        /\ (ConfiguredName = None \/ rs_status.set = ConfiguredName) =>
              ~HasFinding(NAGIOS_CRITICAL, "rs_name_mismatch")

\* The explicit option names RS0, the URI names rs0 and the cluster reports
\* rs0: the explicit option decides, and the run is Critical.
C7_Witness ==
    /\ expected_rs_name = "RS0"
    /\ uri_replicaSet = "rs0"
    /\ rs_status # NoneRec
    /\ rs_status.set = "rs0"
    /\ HasFinding(NAGIOS_CRITICAL, "rs_name_mismatch")
    /\ output.status = NAGIOS_CRITICAL
    /\ pc = "done"

----------------------------------------------------------------------------
(* The claims about connection and topology detection.                     *)

ConnectivityErrors == {"ConnectionFailure", "ServerSelectionTimeoutError"}

\* C9: when the connection or the topology detection fails with a
\* connectivity error, the run records one Critical finding and ends
\* Critical, having issued no command but the handshake.
C9_ConnectivityCritical ==
    check_error \in ConnectivityErrors =>
        /\ pc = "done"
        /\ output.status = NAGIOS_CRITICAL
        /\ Len(output.messages) = 1
        /\ output.messages[1].sev = NAGIOS_CRITICAL
        /\ \A i \in DOMAIN cmds : cmds[i].cmd \in {"hello", "isMaster"}

\* The standard handshake failed as an operation, the legacy one timed out:
\* the run ended Critical after these two commands.
C9_Witness ==
    /\ check_error = "ServerSelectionTimeoutError"
    /\ cmds = <<Cmd("hello", "uri"), Cmd("isMaster", "uri")>>
    /\ output.status = NAGIOS_CRITICAL
    /\ pc = "done"

\* The detection was started and failed.
DetectFailed == check_error # None /\ cmds # <<>>

\* C10, as claimed: a failed detection fails with a connectivity error and
\* the run surfaces it as Unknown.
C10_Original ==
    DetectFailed =>
        /\ check_error \in ConnectivityErrors
        /\ output.status = NAGIOS_UNKNOWN

\* C10, amended: a failed detection fails with the error of the last
\* handshake command issued, an operation failure only after the legacy
\* command was tried too; the run surfaces a connectivity or configuration
\* error as Critical and any other error as Unknown.
C10_Amended ==
    DetectFailed =>
        /\ pc = "done"
        /\ Len(output.messages) = 1
        /\ check_error \in ConnectivityErrors \cup {"ConfigurationError"}
              => output.status = NAGIOS_CRITICAL
        /\ check_error \notin ConnectivityErrors \cup {"ConfigurationError"}
              => output.status = NAGIOS_UNKNOWN
        /\ check_error = "OperationFailure"
              => cmds = <<Cmd("hello", "uri"), Cmd("isMaster", "uri")>>

\* Both handshake commands failed as operations: the run ends Unknown.
C10_Witness ==
    /\ check_error = "OperationFailure"
    /\ cmds = <<Cmd("hello", "uri"), Cmd("isMaster", "uri")>>
    /\ output.status = NAGIOS_UNKNOWN
    /\ pc = "done"

\* The legacy handshake command was issued.
LegacyIssued == \E i \in DOMAIN cmds : cmds[i].cmd = "isMaster"

\* C11: a handshake answer whose status message is the router sentinel is
\* classified Sharded, whether or not it names a replica set; any other
\* answer with a non-empty replica-set name is classified ReplicaSet; any
\* other answer Standalone; the legacy handshake is issued exactly when the
\* standard one failed as an operation the server does not support.
C11_TopologyOrder ==
    /\ hello # NoneRec =>
          /\ hello.msg = "isdbgrid" => topology = SHARDED
          /\ (hello.msg # "isdbgrid" /\ hello.setName \notin {None, ""})
                => topology = REPLICASET
          /\ (hello.msg # "isdbgrid" /\ hello.setName \in {None, ""})
                => topology = STANDALONE
    /\ LegacyIssued <=> hello_error = "OperationFailure"
    /\ LegacyIssued => cmds[1].cmd = "hello"

\* The legacy handshake answered with the router sentinel and a replica-set
\* name: the topology is Sharded.
C11_Witness ==
    /\ hello_error = "OperationFailure"
    /\ cmds = <<Cmd("hello", "uri"), Cmd("isMaster", "uri")>>
    /\ hello = [msg |-> "isdbgrid", setName |-> "rs0"]
    /\ topology = SHARDED
    /\ pc = "sharded"

----------------------------------------------------------------------------
(* FilesystemChecker.dynamic_threshold.                                    *)
(* Sizes are whole MiB, percentages are thousandths of a percent, and      *)
(* log10 is computed in fixed point, to 10 binary digits.                  *)

GiB(n) == n * 1024
Pct(p) == p * 1000

Min(a, b) == IF a <= b THEN a ELSE b
Max(a, b) == IF a >= b THEN a ELSE b

\* k binary digits of log10(y / 4096), for 4096 <= y < 40960, after acc.
RECURSIVE Log10Frac(_, _, _)
Log10Frac(y, k, acc) ==
    IF k = 0 THEN acc
    ELSE LET sq == (y * y) \div 4096
         IN  IF sq >= 40960
             THEN Log10Frac(sq \div 10, k - 1, 2 * acc + 1)
             ELSE Log10Frac(sq, k - 1, 2 * acc)

\* 1024 * log10(total_gb / 500), for total_gb >= 500 given in MiB.
RECURSIVE Log10Ratio(_)
Log10Ratio(mib) ==
    IF mib >= GiB(5000) THEN 1024 + Log10Ratio(mib \div 10)
    ELSE Log10Frac(mib \div 125, 10, 0)

\* scale = math.log10(total_gb / 500) * 5
Scale(total_bytes) == (Log10Ratio(total_bytes) * 5000) \div 1024

\* dynamic_threshold with the cap applied to small volumes too.
dynamic_threshold_CapEverywhere(total_bytes, base_threshold_pct) ==
    IF total_bytes <= GiB(500) THEN Min(base_threshold_pct, Pct(99))
    ELSE Min(base_threshold_pct + Scale(total_bytes), Pct(99))

\* dynamic_threshold without the cap.
dynamic_threshold_NoCap(total_bytes, base_threshold_pct) ==
    IF total_bytes <= GiB(500) THEN base_threshold_pct
    ELSE base_threshold_pct + Scale(total_bytes)

\* dynamic_threshold with the scale subtracted.
dynamic_threshold_Descending(total_bytes, base_threshold_pct) ==
    IF total_bytes <= GiB(500) THEN base_threshold_pct
    ELSE Min(base_threshold_pct - Scale(total_bytes), Pct(99))

\* FilesystemChecker.dynamic_threshold
dynamic_threshold(total_bytes, base_threshold_pct) ==
    IF total_bytes <= GiB(500) THEN base_threshold_pct
    ELSE Min(base_threshold_pct + Scale(total_bytes), Pct(99))

\* The volume sizes and the base percentages the calls are made with.
Capacities == {0, GiB(100), GiB(500), GiB(500) + 1, GiB(1024), GiB(5120),
               GiB(10240), GiB(1000000)}
Bases == {Pct(85), Pct(90), Pct(95), Pct(98), Pct(99), 99500, Pct(100)}

InitDt ==
    /\ output = NewOutput
    /\ dt = <<>>
    /\ IdleCfg /\ IdleRun /\ IdleRs /\ IdleTe /\ IdleMain /\ IdleNode /\ IdleSh

\* One call dynamic_threshold(total_bytes, base_threshold_pct).
DtCall ==
    /\ Len(dt) < MaxCalls
    /\ \E t \in Capacities, b \in Bases :
          dt' = Append(dt, [total_bytes |-> t, base_threshold_pct |-> b,
                            ret |-> dynamic_threshold(t, b)])
    /\ UNCHANGED <<outVars, cfgVars, runVars, rsVars, teVars, mainVars, nodeVars,
                   shVars>>

NextDt == DtCall

SpecDt == InitDt /\ [][NextDt]_vars

\* C18: for every capacity up to 500 GiB, the boundary and 0 included, the
\* effective threshold is the base percent, unchanged.
C18_SmallUnchanged ==
    \A i \in DOMAIN dt :
        dt[i].total_bytes <= GiB(500) => dt[i].ret = dt[i].base_threshold_pct

\* Calls at exactly 500 GiB with base 85 and at 0 with base 100 returned
\* 85 and 100.
C18_Witness ==
    /\ Len(dt) = 2
    /\ dt[1] = [total_bytes |-> GiB(500), base_threshold_pct |-> Pct(85),
                ret |-> Pct(85)]
    /\ dt[2] = [total_bytes |-> 0, base_threshold_pct |-> Pct(100),
                ret |-> Pct(100)]

Ordered(i, j) ==
    /\ dt[i].base_threshold_pct = dt[j].base_threshold_pct
    /\ dt[i].total_bytes <= dt[j].total_bytes

----------------------------------------------------------------------------
(* FilesystemChecker.                                                      *)

\* FilesystemChecker.__init__: the base warning and critical percentages,
\* those of the fs_usage_pct policy where it sets them, else 85 and 95.
FsBase(th) ==
    IF "fs_usage_pct" \in DOMAIN th
    THEN LET cfg == th["fs_usage_pct"]
         IN  [warning |-> IF "warning" \in DOMAIN cfg THEN cfg.warning ELSE Pct(85),
              critical |-> IF "critical" \in DOMAIN cfg THEN cfg.critical ELSE Pct(95)]
    ELSE [warning |-> Pct(85), critical |-> Pct(95)]

\* usage_pct = (fs_used / fs_total) * 100, in thousandths of a percent.
UsagePct(fs_used, fs_total) ==
    ((fs_used * 100) \div fs_total) * 1000
       + (((fs_used * 100) % fs_total) * 1000) \div fs_total

\* bytes_to_gb: GiB rounded to 2 decimal places, in hundredths.
bytes_to_gb(value) == (value * 100 + 512) \div 1024

\* The effective thresholds with no scaling: the bases themselves.
EffectiveThresholds_Static(fs_total, base) ==
    [warn |-> base.warning, crit |-> base.critical]

\* effective_warn and effective_crit of _check_node_fs.
EffectiveThresholds(fs_total, base) ==
    [warn |-> dynamic_threshold(fs_total, base.warning),
     crit |-> dynamic_threshold(fs_total, base.critical)]

\* FilesystemChecker._check_node_fs, given the dbStats answer: the output
\* object after the call.
check_node_fs(o, stats, base, node_name) ==
    IF "fsTotalSize" \notin DOMAIN stats \/ "fsUsedSize" \notin DOMAIN stats
    THEN add_message(o, NAGIOS_UNKNOWN, <<"fs_not_available", node_name>>)
    ELSE IF stats.fsTotalSize = 0
    THEN add_message(o, NAGIOS_UNKNOWN, <<"fs_total_zero", node_name>>)
    ELSE LET fs_total == stats.fsTotalSize
             fs_used == stats.fsUsedSize
             usage_pct == UsagePct(fs_used, fs_total)
             eff == EffectiveThresholds(fs_total, base)
             o1 == add_perfdata(o, "fs_used_pct", node_name, usage_pct)
             o2 == add_perfdata(o1, "fs_total", node_name, bytes_to_gb(fs_total))
             o3 == add_perfdata(o2, "fs_used", node_name, bytes_to_gb(fs_used))
             o4 == add_perfdata(o3, "fs_free", node_name,
                                bytes_to_gb(fs_total - fs_used))
         IN  IF usage_pct >= eff.crit
             THEN add_message(o4, NAGIOS_CRITICAL, <<"fs_critical", node_name>>)
             ELSE IF usage_pct >= eff.warn
             THEN add_message(o4, NAGIOS_WARNING, <<"fs_warning", node_name>>)
             ELSE o4

\* The fs_usage_pct policies: none, or warning and critical each absent or
\* set.
FsThresholdConfigs ==
    {EmptyDict} \cup
    { [k \in {"fs_usage_pct"} |-> Policy(w, c, None)] :
         w \in {Absent, Pct(80)}, c \in {Absent, Pct(90)} }

\* The dbStats answers: without the filesystem fields, with a total of 0,
\* and volumes of 100 GiB and 2 TiB used to 50, 85, 88, 95 and 97 percent.
Volume(total, used) == [f \in {"fsTotalSize", "fsUsedSize"} |->
                           IF f = "fsTotalSize" THEN total ELSE used]

DbStatsAnswers ==
    {EmptyDict, [f \in {"fsTotalSize"} |-> GiB(100)], Volume(0, 0)}
    \cup { Volume(GiB(100), u) : u \in {51200, 87040, 90112, 97280, 99328} }
    \cup { Volume(GiB(2048), u) : u \in {1048576, 1782580, 1845494, 1992295,
                                         2034238} }

\* The exceptions connect_to_node and dbStats may raise.
NodeErrors == {"ConnectionFailure", "ServerSelectionTimeoutError",
               "OperationFailure", "Exception"}

\* FilesystemChecker.check, up to its loop; parse_hosts_from_uri raises
\* ValueError on a port that is no number.
FsStart ==
    /\ pc = "fs_start"
    /\ \/ /\ pc' = "raised"
          /\ check_error' = "ValueError"
          /\ UNCHANGED <<output, all_ok>>
       \/ /\ check_error' = check_error
          /\ IF uri_hosts = <<>>
             THEN /\ output' = add_message(output, NAGIOS_UNKNOWN, <<"no_hosts", "-">>)
                  /\ pc' = "done"
                  /\ UNCHANGED all_ok
             ELSE /\ all_ok' = TRUE
                  /\ pc' = "fs_loop"
                  /\ UNCHANGED output
    /\ UNCHANGED <<cmds, hello, hello_error, topology, cfgVars, rsVars, teVars,
                   mainVars, node_error, db_stats, fs_base, node_metrics, dtVars, shVars>>

\* One iteration of the loop of FilesystemChecker.check.
FsNode ==
    /\ pc = "fs_loop"
    /\ node_i < Len(uri_hosts)
    /\ LET node_name == uri_hosts[node_i + 1]
       IN  /\ cmds' = Append(cmds, Cmd("dbStats", node_name))
           /\ \/ \E e \in NodeErrors :
                    /\ node_error' = e
                    /\ db_stats' = NoneRec
                    /\ output' = add_message(output, NAGIOS_CRITICAL,
                           <<IF e \in {"ConnectionFailure", "ServerSelectionTimeoutError"}
                             THEN "node_unreachable" ELSE "node_error", node_name>>)
                    /\ all_ok' = FALSE
                    /\ node_i' = NextNode(node_i, e)
              \/ \E stats \in DbStatsAnswers :
                    /\ node_error' = None
                    /\ db_stats' = stats
                    /\ output' = check_node_fs(output, stats, fs_base, node_name)
                    /\ node_i' = NextNode(node_i, None)
                    /\ UNCHANGED all_ok
    /\ UNCHANGED <<pc, hello, hello_error, topology, check_error, cfgVars, teVars,
                   mainVars, fs_base, node_metrics, dtVars, shVars, rs_status, quorum,
                   nodes_ok, nodes_down, direct_ok, direct_error, indirect_info>>

\* The end of FilesystemChecker.check.
FsSummary ==
    /\ pc = "fs_loop"
    /\ node_i = Len(uri_hosts)
    /\ output' = IF all_ok /\ output.messages = <<>>
                 THEN add_message(output, NAGIOS_OK, <<"fs_within_thresholds", "-">>)
                 ELSE output
    /\ pc' = "done"
    /\ UNCHANGED <<cmds, hello, hello_error, topology, check_error, cfgVars,
                   rsVars, teVars, extVars>>

\* FilesystemChecker.check, from its call by main.
InitFs ==
    /\ output = NewOutput
    /\ uri_hosts \in HostLists(MaxHosts)
    /\ expected_rs_name = None
    /\ uri_replicaSet = None
    /\ pc = "fs_start"
    /\ cmds = <<>>
    /\ hello = NoneRec
    /\ hello_error = None
    /\ topology = None
    /\ check_error = None
    /\ thresholds \in FsThresholdConfigs
    /\ te_call = NoCall
    /\ te_ret = FALSE
    /\ argv = [modes |-> {"filesystem"}, thresholds |-> "json"]
    /\ process = NotExited
    /\ all_ok = TRUE
    /\ node_error = None
    /\ db_stats = NoneRec
    /\ fs_base = FsBase(thresholds)
    /\ node_metrics = NoneRec
    /\ IdleRs /\ IdleDt /\ IdleSh

NextFs == FsStart \/ FsNode \/ FsSummary

SpecFs == InitFs /\ [][NextFs]_vars

\* The last node of the loop answered dbStats with both sizes, the total
\* not 0.
ReportsCapacity(stats) ==
    /\ stats # NoneRec
    /\ DOMAIN stats = {"fsTotalSize", "fsUsedSize"}
    /\ stats.fsTotalSize > 0

\* o2 is o1 with one finding of severity sev about node added, and the
\* status escalated accordingly.
OneFindingAdded(o1, o2, sev, node) ==
    /\ Len(o2.messages) = Len(o1.messages) + 1
    /\ SubSeq(o2.messages, 1, Len(o1.messages)) = o1.messages
    /\ o2.messages[Len(o2.messages)].sev = sev
    /\ o2.messages[Len(o2.messages)].node = node
    /\ o2.status = set_status(o1, sev).status

\* C17: for a node that reports capacity data, Critical is proposed iff the
\* usage percent is at least the effective critical threshold, otherwise
\* Warning iff it is at least the effective warning threshold, otherwise
\* nothing; each effective threshold is scaled from its own base, and the
\* bases are 85 and 95 when no fs_usage_pct policy is configured.
C17_PerNodeFs ==
    [][(node_i' = node_i + 1 /\ ReportsCapacity(db_stats')) =>
        LET total == db_stats'.fsTotalSize
            usage == UsagePct(db_stats'.fsUsedSize, total)
            eff_warn == dynamic_threshold(total, fs_base.warning)
            eff_crit == dynamic_threshold(total, fs_base.critical)
            node == uri_hosts[node_i']
        IN  /\ "fs_usage_pct" \notin DOMAIN thresholds
                  => fs_base = [warning |-> Pct(85), critical |-> Pct(95)]
            /\ usage >= eff_crit
                  => OneFindingAdded(output, output', NAGIOS_CRITICAL, node)
            /\ (usage < eff_crit /\ usage >= eff_warn)
                  => OneFindingAdded(output, output', NAGIOS_WARNING, node)
            /\ (usage < eff_crit /\ usage < eff_warn)
                  => /\ output'.messages = output.messages
                     /\ output'.status = output.status]_vars

\* With no policy, a 2 TiB volume used to 88 percent raises nothing: its
\* effective warning threshold is above 88.
C17_Witness ==
    /\ pc = "fs_loop"
    /\ node_i = 1
    /\ thresholds = EmptyDict
    /\ db_stats = Volume(GiB(2048), 1845494)
    /\ UsagePct(1845494, GiB(2048)) >= Pct(88)
    /\ output.messages = <<>>
    /\ output.status = NAGIOS_OK
    /\ Len(output.perfdata) = 4

\* C15: when the filesystem check is over and a node was unreachable, or
\* its capacity query failed, the run is Critical, whatever the other nodes
\* gave and wherever the failing node is in the list.
C15_FailureIsCritical ==
    (pc = "done" /\ ~all_ok) => output.status = NAGIOS_CRITICAL

----------------------------------------------------------------------------
(* MetricsChecker.                                                         *)

\* MetricsChecker.handle_permission_error: Critical if a threshold is
\* configured for one of the affected keys, else Warning.
handle_permission_error(o, th, metric_keys) ==
    IF \E k \in metric_keys : k \in DOMAIN th
    THEN add_message(o, NAGIOS_CRITICAL, <<"permission_required", "-">>)
    ELSE add_message(o, NAGIOS_WARNING, <<"permission_ignored", "-">>)

\* The optional sections of _collect_metrics that call
\* handle_permission_error, and the metric keys each passes to it.
Sections == {"repl_lag", "oplog_window", "oplog_size", "db_stats"}

AffectedKeys(section) ==
    CASE section = "repl_lag" -> {"repl_lag"}
      [] section = "oplog_window" -> {"oplog_window"}
      [] section = "oplog_size" -> {"oplog_max_size", "oplog_used_size"}
      [] section = "db_stats" -> {"total_data_size", "total_storage_size",
                                  "total_index_size"}

\* The metrics serverStatus itself provides and _collect_metrics checks.
CoreKeys == {"conn_usage_pct", "queue_total", "cache_usage_pct",
             "tickets_read_pct", "tickets_write_pct", "cursor_open",
             "cursor_timed_out", "assertions_regular", "assertions_warning"}

\* The outcome of the commands of a section: a value (Absent if the node
\* has none to give), or the exception raised; "Unauthorized" is an
\* OperationFailure with code 13.
OkOutcome(v) == [err |-> None, value |-> v]
ErrOutcome(e) == [err |-> e, value |-> Absent]

\* What a node answers to _collect_metrics: the connection usage, and the
\* outcome of each section (denied, failed otherwise, or the value 2).
McAnswer(conn, denied, failed) ==
    [conn_usage_pct |-> conn,
     sections |-> [sec \in Sections |->
                     IF sec \in denied THEN ErrOutcome("Unauthorized")
                     ELSE IF sec \in failed THEN ErrOutcome("OperationFailure")
                     ELSE OkOutcome(2)]]

DeniedSets == {{}, {"repl_lag"}, {"oplog_window"}, {"oplog_size"}, {"db_stats"},
               {"repl_lag", "db_stats"}}

McAnswers ==
    { McAnswer(c, d, {}) : c \in {0, 2}, d \in DeniedSets }
    \cup { McAnswer(0, {}, {sec}) : sec \in {"repl_lag", "oplog_window"} }

\* The exceptions connect_to_node and serverStatus may raise.
McNodeErrors == {"ConnectionFailure", "ServerSelectionTimeoutError",
                 "Unauthorized", "Exception"}

\* The threshold configurations of the metrics check: policies with
\* warning 1 and critical 3 for the keys of one of these sets.
McThresholdConfigs ==
    { [k \in keys |-> Policy(1, 3, None)] :
         keys \in {{}, {"conn_usage_pct"}, {"repl_lag"}, {"total_data_size"},
                   {"conn_usage_pct", "oplog_window"}} }

\* A section of _collect_metrics that ends with a te.check of its value:
\* repl_lag, oplog_window.
CheckedSection(o, th, sec, outcome, node_name) ==
    IF outcome.err = None
    THEN IF outcome.value = Absent THEN o
         ELSE ThresholdEngine_check(th, sec, outcome.value,
                  add_perfdata(o, sec, node_name, outcome.value), node_name).output
    ELSE IF outcome.err = "Unauthorized"
    THEN handle_permission_error(o, th, AffectedKeys(sec))
    ELSE o

\* A section that only records observations: oplog_size, db_stats.
ObservedSection(o, th, sec, outcome, node_name) ==
    IF outcome.err = None
    THEN add_perfdata(o, sec, node_name, outcome.value)
    ELSE IF outcome.err = "Unauthorized"
    THEN handle_permission_error(o, th, AffectedKeys(sec))
    ELSE o

\* MetricsChecker._collect_metrics once serverStatus has answered: the
\* output object after the call. The counters that no configuration of the
\* model sets a threshold for are not part of the answer.
collect_metrics(o, th, ans, node_name) ==
    LET o1 == add_perfdata(o, "conn_usage_pct", node_name, ans.conn_usage_pct)
        o2 == ThresholdEngine_check(th, "conn_usage_pct", ans.conn_usage_pct,
                                    o1, node_name).output
        o3 == CheckedSection(o2, th, "repl_lag", ans.sections["repl_lag"], node_name)
        o4 == CheckedSection(o3, th, "oplog_window", ans.sections["oplog_window"],
                             node_name)
        o5 == ObservedSection(o4, th, "oplog_size", ans.sections["oplog_size"],
                              node_name)
    IN  ObservedSection(o5, th, "db_stats", ans.sections["db_stats"], node_name)

\* The commands _collect_metrics issues after serverStatus.
SectionCmds(node_name) ==
    <<Cmd("replSetGetStatus", node_name), Cmd("find", node_name),
      Cmd("collStats", node_name), Cmd("listDatabases", node_name),
      Cmd("dbStats", node_name)>>

\* The loop with a failed node ending it.
LoopAfter_StopOnFailure(err) == IF err = None THEN "mc_loop" ELSE "done"

\* Where the loop of MetricsChecker.check goes after a node: on to the
\* next node, whether or not this one raised.
LoopAfter(err) == "mc_loop"

\* MetricsChecker.check, up to its loop; parse_hosts_from_uri raises
\* ValueError on a port that is no number.
McStart ==
    /\ pc = "mc_start"
    /\ \/ /\ pc' = "raised"
          /\ check_error' = "ValueError"
          /\ UNCHANGED <<output, all_ok>>
       \/ /\ check_error' = check_error
          /\ IF uri_hosts = <<>>
             THEN /\ output' = add_message(output, NAGIOS_UNKNOWN, <<"no_hosts", "-">>)
                  /\ pc' = "done"
                  /\ UNCHANGED all_ok
             ELSE /\ all_ok' = TRUE
                  /\ pc' = "mc_loop"
                  /\ UNCHANGED output
    /\ UNCHANGED <<cmds, hello, hello_error, topology, cfgVars, rsVars, teVars,
                   mainVars, node_error, db_stats, fs_base, node_metrics, dtVars, shVars>>

\* One iteration of the loop of MetricsChecker.check.
McNode ==
    /\ pc = "mc_loop"
    /\ node_i < Len(uri_hosts)
    /\ LET node_name == uri_hosts[node_i + 1]
       IN  \/ \E e \in McNodeErrors :
                 /\ node_error' = e
                 /\ node_metrics' = NoneRec
                 /\ cmds' = Append(cmds, Cmd("serverStatus", node_name))
                 /\ output' = add_message(output, NAGIOS_CRITICAL,
                        <<IF e \in {"ConnectionFailure", "ServerSelectionTimeoutError"}
                          THEN "node_unreachable" ELSE "node_error", node_name>>)
                 /\ all_ok' = FALSE
                 /\ pc' = LoopAfter(e)
                 /\ node_i' = NextNode(node_i, e)
           \/ \E ans \in McAnswers :
                 /\ node_error' = None
                 /\ node_metrics' = ans
                 /\ cmds' = Append(cmds, Cmd("serverStatus", node_name))
                              \o SectionCmds(node_name)
                 /\ output' = collect_metrics(output, thresholds, ans, node_name)
                 /\ pc' = LoopAfter(None)
                 /\ node_i' = NextNode(node_i, None)
                 /\ UNCHANGED all_ok
    /\ UNCHANGED <<hello, hello_error, topology, check_error, cfgVars, teVars,
                   mainVars, db_stats, fs_base, dtVars, shVars, rs_status, quorum,
                   nodes_ok, nodes_down, direct_ok, direct_error, indirect_info>>

\* The end of MetricsChecker.check.
McSummary ==
    /\ pc = "mc_loop"
    /\ node_i = Len(uri_hosts)
    /\ output' = IF all_ok /\ output.messages = <<>>
                 THEN add_message(output, NAGIOS_OK, <<"metrics_collected", "-">>)
                 ELSE output
    /\ pc' = "done"
    /\ UNCHANGED <<cmds, hello, hello_error, topology, check_error, cfgVars,
                   rsVars, teVars, extVars>>

\* MetricsChecker.check, from its call by main.
InitMc ==
    /\ output = NewOutput
    /\ uri_hosts \in HostLists(MaxHosts)
    /\ expected_rs_name = None
    /\ uri_replicaSet = None
    /\ pc = "mc_start"
    /\ cmds = <<>>
    /\ hello = NoneRec
    /\ hello_error = None
    /\ topology = None
    /\ check_error = None
    /\ thresholds \in McThresholdConfigs
    /\ te_call = NoCall
    /\ te_ret = FALSE
    /\ argv = [modes |-> {"metrics"}, thresholds |-> "json"]
    /\ process = NotExited
    /\ IdleRs /\ IdleNode /\ IdleDt /\ IdleSh

NextMc == McStart \/ McNode \/ McSummary

SpecMc == InitMc /\ [][NextMc]_vars

\* The nodes serverStatus was sent to, in order.
IsServerStatus(c) == c.cmd = "serverStatus"
Attempted ==
    LET sent == SelectSeq(cmds, IsServerStatus)
    IN  [i \in DOMAIN sent |-> sent[i].node]

\* C16: in the metrics check an unreachable node raises one Critical
\* finding and makes the run Critical for good, the loop goes on to the
\* next node after it, and when the check is over every configured node
\* has been attempted, in order.
C16_UnreachableMetrics ==
    /\ [][(node_i' = node_i + 1 /\ node_error' \in ConnectivityErrors) =>
            /\ OneFindingAdded(output, output', NAGIOS_CRITICAL, uri_hosts[node_i'])
            /\ output'.messages[Len(output'.messages)].kind = "node_unreachable"
            /\ output'.status = NAGIOS_CRITICAL
            /\ pc' = "mc_loop"]_vars
    /\ [](HasFinding(NAGIOS_CRITICAL, "node_unreachable")
             => output.status = NAGIOS_CRITICAL)
    /\ [](pc = "done" => node_i = Len(uri_hosts) /\ Attempted = uri_hosts)

\* Of two configured nodes the first was unreachable and the second was
\* collected from: the run is over and Critical.
C16_Witness ==
    /\ pc = "done"
    /\ Len(uri_hosts) = 2
    /\ output.messages[1] = Finding(NAGIOS_CRITICAL, "node_unreachable", uri_hosts[1])
    /\ node_error = None
    /\ node_metrics # NoneRec
    /\ Attempted = uri_hosts
    /\ ~all_ok
    /\ output.status = NAGIOS_CRITICAL

\* The calls of an iteration that failed with an authorization error, and
\* the metric keys each affects.
AuthFailures(err, ans) ==
    IF err = "Unauthorized" THEN {"serverStatus"}
    ELSE IF ans = NoneRec THEN {}
    ELSE { sec \in Sections : ans.sections[sec].err = "Unauthorized" }

KeysOf(call) == IF call = "serverStatus" THEN CoreKeys ELSE AffectedKeys(call)

Configured(call) == \E k \in KeysOf(call) : k \in DOMAIN thresholds

\* The findings an iteration added, other than those of a threshold.
NewFindings(o1, o2, sev) ==
    { i \in (Len(o1.messages) + 1) .. Len(o2.messages) :
         /\ o2.messages[i].sev = sev
         /\ o2.messages[i].kind \notin {"threshold_warning", "threshold_critical"} }

\* The policy on the authorization failures in calls: one Critical finding
\* for each call with a configured affected key, one Warning finding for
\* each other call, and the loop goes on.
FollowsPolicy(calls) ==
    /\ Cardinality(NewFindings(output, output', NAGIOS_CRITICAL))
          = Cardinality({c \in calls : Configured(c)})
    /\ Cardinality(NewFindings(output, output', NAGIOS_WARNING))
          = Cardinality({c \in calls : ~Configured(c)})
    /\ pc' = "mc_loop"

\* C14: each collection call that fails with an authorization error raises
\* a Critical finding if a threshold policy is configured for one of the
\* metric keys it affects and a Warning finding otherwise, so that with no
\* such policy and no other finding the run is Warning; the run goes on.
C14_AuthorizationPolicy ==
    [][(node_i' = node_i + 1 /\ node_error' \in {None, "Unauthorized"}) =>
          FollowsPolicy(AuthFailures(node_error', node_metrics'))]_vars

\* The same policy for the sections that call handle_permission_error:
\* replication lag, oplog window, oplog size, database statistics.
HandledSectionsPolicy ==
    [][(node_i' = node_i + 1 /\ node_error' = None) =>
          FollowsPolicy(AuthFailures(node_error', node_metrics'))]_vars

----------------------------------------------------------------------------
(* main.                                                                   *)

\* The check modes, and the command lines: any set of modes, and
\* --thresholds absent, not JSON, JSON but no object, or a JSON object.
Modes == {"availability", "metrics", "filesystem"}

ArgLines == [modes : SUBSET Modes,
             thresholds : {None, "not-json", "not-object", "json"}]

\* parse_arguments returns: exactly one mode of the mutually exclusive
\* group, and --thresholds absent or a JSON object. Otherwise parser.error
\* writes the usage to stderr and raises SystemExit with status 2.
ArgsValid(a) ==
    /\ Cardinality(a.modes) = 1
    /\ a.thresholds \in {None, "json"}

\* The exit code with Unknown reported as Critical.
ExitCode_UnknownAsCritical(o) ==
    IF o.status = NAGIOS_UNKNOWN THEN NAGIOS_CRITICAL ELSE o.status

\* IcingaOutput.exit: sys.exit(self.status)
ExitCode(o) == o.status

\* The thresholds_dict main builds for a checker from --thresholds.
ThresholdsDicts(a, configs) ==
    IF a.thresholds = "json" THEN configs ELSE {EmptyDict}

\* main, from parse_arguments to the call of the checker's check.
ParseArguments ==
    /\ pc = "main"
    /\ IF ~ArgsValid(argv)
       THEN /\ process' = [exited |-> TRUE, code |-> 2, printed |-> 0]
            /\ pc' = "exited"
            /\ UNCHANGED <<thresholds, fs_base>>
       ELSE /\ UNCHANGED process
            /\ \/ /\ "availability" \in argv.modes
                  /\ pc' = "start"
                  /\ UNCHANGED <<thresholds, fs_base>>
               \/ /\ "metrics" \in argv.modes
                  /\ thresholds' \in ThresholdsDicts(argv, McThresholdConfigs)
                  /\ pc' = "mc_start"
                  /\ UNCHANGED fs_base
               \/ /\ "filesystem" \in argv.modes
                  /\ thresholds' \in ThresholdsDicts(argv, FsThresholdConfigs)
                  /\ fs_base' = FsBase(thresholds')
                  /\ pc' = "fs_start"
    /\ UNCHANGED <<output, cmds, hello, hello_error, topology, check_error,
                   cfgVars, rsVars, te_call, te_ret, argv, all_ok, node_error,
                   db_stats, node_metrics, dtVars, shVars>>

\* except Exception in main: an exception that left the checker.
MainExcept ==
    /\ pc = "raised"
    /\ output' = add_message(output, NAGIOS_UNKNOWN, <<"plugin_error", "-">>)
    /\ pc' = "done"
    /\ UNCHANGED <<cmds, hello, hello_error, topology, check_error, cfgVars,
                   rsVars, teVars, extVars>>

\* output.exit(): print the result line and exit with the status.
Exit ==
    /\ pc = "done"
    /\ process' = [exited |-> TRUE, code |-> ExitCode(output),
                   printed |-> process.printed + 1]
    /\ pc' = "exited"
    /\ UNCHANGED <<outVars, cmds, hello, hello_error, topology, check_error,
                   cfgVars, rsVars, teVars, argv, nodeVars, dtVars, shVars>>

\* A whole run of the program.
InitMain ==
    /\ output = NewOutput
    /\ uri_hosts \in HostLists(MaxRunHosts)
    /\ expected_rs_name = None
    /\ uri_replicaSet \in UriRsParams
    /\ pc = "main"
    /\ cmds = <<>>
    /\ hello = NoneRec
    /\ hello_error = None
    /\ topology = None
    /\ check_error = None
    /\ argv \in ArgLines
    /\ process = NotExited
    /\ IdleRs /\ IdleTe /\ IdleNode /\ IdleDt /\ IdleSh

NextMain ==
    \/ ParseArguments \/ MainExcept \/ Exit
    \/ Check \/ CheckStandalone \/ RsGetStatus \/ RsNode \/ RsSummary
    \/ McStart \/ McNode \/ McSummary
    \/ FsStart \/ FsNode \/ FsSummary

SpecMain == InitMain /\ [][NextMain]_vars

\* C12: a command line with no mode or several, or with a malformed
\* --thresholds, ends the run with exit code 3 (Unknown) before any probe.
C12_ConfigErrorUnknown ==
    (~ArgsValid(argv) /\ pc # "main") =>
        /\ process.exited
        /\ process.code = NAGIOS_UNKNOWN
        /\ cmds = <<>>

----------------------------------------------------------------------------
(* More claims about the replica-set check.                                *)

\* The commands sent over a direct connection to a node.
IsDirect(c) == c.node # "uri"

\* replSetGetStatus raised: the finding of either except clause is there.
StatusFailed ==
    \/ HasFinding(NAGIOS_CRITICAL, "cannot_get_status")
    \/ HasFinding(NAGIOS_CRITICAL, "status_error")

\* C24: when replSetGetStatus raises, the replica-set check adds one
\* Critical finding and returns: no node is probed directly, no per-node,
\* count or quorum observation is emitted, and no finding follows that one
\* up to the exit of the process.
C24_StatusFailureShortCircuits ==
    /\ [][(pc = "rs_start" /\ rs_status' = NoneRec) =>
            /\ OneFindingAdded(output, output', NAGIOS_CRITICAL, "-")
            /\ output'.status = NAGIOS_CRITICAL
            /\ pc' = "done"]_vars
    /\ [](StatusFailed =>
            /\ pc \in {"done", "exited"}
            /\ SelectSeq(cmds, IsDirect) = <<>>
            /\ output.perfdata = <<>>
            /\ Len(output.messages) = 1
            /\ output.status = NAGIOS_CRITICAL
            /\ quorum = NoQuorum
            /\ node_i = 0)
    /\ [][StatusFailed => output' = output]_vars

\* The status command raised on a replica set: the process has exited with
\* 2 after the handshake and the status command alone.
C24_Witness ==
    /\ pc = "exited"
    /\ topology = REPLICASET
    /\ output.messages = <<Finding(NAGIOS_CRITICAL, "cannot_get_status", "-")>>
    /\ cmds = <<Cmd("hello", "uri"), Cmd("replSetGetStatus", "uri")>>
    /\ process = [exited |-> TRUE, code |-> NAGIOS_CRITICAL, printed |-> 1]

\* The observations with a label, in the order they were emitted.
Observations(label) ==
    LET Labelled(pd) == pd.label = label
    IN  SelectSeq(output.perfdata, Labelled)

\* C25: each iteration of the per-node loop emits one health observation
\* of its node, 1 iff the node is Healthy or HealthyArbiterSegregated in the
\* decision table and 0 otherwise; a completed check has emitted one for
\* each configured node, in order, then the counts of the nodes ok and
\* down and one quorum observation, 1 iff the quorum holds.
C25_HealthObservations ==
    /\ [][node_i' = node_i + 1 =>
            LET host == uri_hosts[node_i']
                class == ClassOfStep(host, direct_error')
            IN  output'.perfdata = Append(output.perfdata,
                    [label |-> "state", node |-> host,
                     value |-> IF class \in {"Healthy", "HealthyArbiterSegregated"}
                               THEN 1 ELSE 0])]_vars
    /\ [](RsCompleted =>
            LET obs == Observations("state")
                n == Len(uri_hosts)
            IN  /\ Len(obs) = n
                /\ \A i \in 1..n : obs[i].node = uri_hosts[i] /\ obs[i].value \in {0, 1}
                /\ Len(output.perfdata) = n + 3
                /\ output.perfdata[n + 1] =
                      [label |-> "nodes_ok", node |-> "-",
                       value |-> Cardinality({i \in 1..n : obs[i].value = 1})]
                /\ output.perfdata[n + 2] =
                      [label |-> "nodes_down", node |-> "-",
                       value |-> Cardinality({i \in 1..n : obs[i].value = 0})]
                /\ output.perfdata[n + 3] =
                      [label |-> "quorum", node |-> "-",
                       value |-> IF QuorumHolds(rs_status.members) THEN 1 ELSE 0])

\* Two configured nodes, the first a healthy arbiter out of reach and the
\* second a node the cluster does not report: observations 1 and 0, counts
\* 1 and 1, and the quorum observation 1.
C25_Witness ==
    /\ RsCompleted
    /\ uri_hosts = <<"h1:27017", "h2:27017">>
    /\ IndirectInfo(rs_status.members, "h1:27017") = [state |-> ARBITER, health |-> 1]
    /\ ~Reported("h2:27017")
    /\ output.perfdata =
          << [label |-> "state", node |-> "h1:27017", value |-> 1],
             [label |-> "state", node |-> "h2:27017", value |-> 0],
             [label |-> "nodes_ok", node |-> "-", value |-> 1],
             [label |-> "nodes_down", node |-> "-", value |-> 1],
             [label |-> "quorum", node |-> "-", value |-> 1] >>
    /\ direct_ok

\* The summary findings of the replica-set check.
SummaryFindings(kind) ==
    { i \in DOMAIN output.messages : output.messages[i].kind = kind }

\* C29: the per-node loop counts each configured address once, as ok or as
\* down, so that nodes_ok + nodes_down is the number of addresses handled,
\* and the number of configured addresses when the summary is produced; a
\* completed check holds exactly one summary finding: the Critical one of
\* the nodes down iff nodes_down > 0, the Ok one iff nodes_down = 0.
C29_CountsAndSummary ==
    /\ [][node_i' = node_i + 1 =>
            /\ nodes_ok' + nodes_down' = nodes_ok + nodes_down + 1
            /\ nodes_ok' >= nodes_ok
            /\ nodes_down' >= nodes_down]_vars
    /\ [](pc = "rs_loop" =>
            /\ nodes_ok + nodes_down = node_i
            /\ SummaryFindings("nodes_down") = {}
            /\ SummaryFindings("all_healthy") = {})
    /\ [](RsCompleted =>
            /\ nodes_ok + nodes_down = Len(uri_hosts)
            /\ Cardinality(SummaryFindings("nodes_down"))
                  + Cardinality(SummaryFindings("all_healthy")) = 1
            /\ nodes_down > 0 <=> HasFinding(NAGIOS_CRITICAL, "nodes_down")
            /\ nodes_down = 0 <=> HasFinding(NAGIOS_OK, "all_healthy"))

\* The same address configured twice and reached twice, the cluster
\* reporting it healthy: it is counted twice, and the summary is the Ok one.
C29_Witness ==
    /\ RsCompleted
    /\ uri_hosts = <<"h1:27017", "h1:27017">>
    /\ nodes_ok = 2
    /\ nodes_down = 0
    /\ HasFinding(NAGIOS_OK, "all_healthy")
    /\ ~HasFinding(NAGIOS_CRITICAL, "nodes_down")

\* The quorum as a function of the membership snapshot alone.
QuorumOf(members) ==
    LET n == Len(members)
        healthy == Cardinality(HealthyVoters(members))
    IN  [voting_members |-> n, healthy_voting |-> healthy,
         majority |-> (n \div 2) + 1, quorum_ok |-> 2 * healthy > n]

\* The nodes the check has touched: probed directly, raised a finding
\* about, or emitted a health observation of.
TouchedNodes ==
    {cmds[i].node : i \in DOMAIN cmds}
    \cup {output.messages[i].node : i \in DOMAIN output.messages}
    \cup {output.perfdata[i].node : i \in DOMAIN output.perfdata}

ConfiguredNodes == {uri_hosts[i] : i \in DOMAIN uri_hosts}

\* C30: once the name check has passed, votingMembers, healthyVoting,
\* majority and quorumOk are those of the snapshot alone, whatever the
\* configured addresses are and whatever the direct probes give, and the
\* quorum finding and observation of a completed check follow them; a
\* member of the snapshot that is not configured counts in them, yet is
\* never probed and has no finding or observation; an empty snapshot loses
\* the quorum.
C30_QuorumFromSnapshot ==
    /\ []((pc = "rs_loop" \/ RsCompleted) =>
            /\ quorum = QuorumOf(rs_status.members)
            /\ rs_status.members = <<>> => ~quorum.quorum_ok
            /\ TouchedNodes \subseteq ConfiguredNodes \cup {"uri", "-"})
    /\ [][node_i' = node_i + 1 => quorum' = quorum /\ rs_status' = rs_status]_vars
    /\ [](RsCompleted =>
            /\ HasFinding(NAGIOS_CRITICAL, "quorum_lost")
                  <=> ~QuorumOf(rs_status.members).quorum_ok
            /\ output.perfdata[Len(output.perfdata)].value
                  = IF QuorumOf(rs_status.members).quorum_ok THEN 1 ELSE 0)

\* One configured node, reported down and out of reach, in a snapshot of
\* three members whose other two are healthy: the quorum holds by the two
\* members that are not configured, and only the configured one was probed.
C30_Witness ==
    /\ RsCompleted
    /\ uri_hosts = <<"h1:27017">>
    /\ Len(rs_status.members) = 3
    /\ IndirectInfo(rs_status.members, "h1:27017") = [state |-> DOWN, health |-> 0]
    /\ direct_error = "ConnectionFailure"
    /\ quorum = [voting_members |-> 3, healthy_voting |-> 2, majority |-> 2,
                 quorum_ok |-> TRUE]
    /\ SelectSeq(cmds, IsDirect) = <<Cmd("ping", "h1:27017")>>
    /\ ~HasFinding(NAGIOS_CRITICAL, "quorum_lost")
    /\ output.status = NAGIOS_CRITICAL

----------------------------------------------------------------------------
(* The per-node loops of the three checks, side by side.                   *)

InitProbes == InitRs \/ InitMc \/ InitFs

NextProbes ==
    \/ RsGetStatus \/ RsNode \/ RsSummary
    \/ McStart \/ McNode \/ McSummary
    \/ FsStart \/ FsNode \/ FsSummary

SpecProbes == InitProbes /\ [][NextProbes]_vars

\* The command that opens the direct probe of a node in the check that is
\* running, and the nodes probed so far, in order.
ProbeCmd ==
    IF "metrics" \in argv.modes THEN "serverStatus"
    ELSE IF "filesystem" \in argv.modes THEN "dbStats"
    ELSE "ping"

Probed ==
    LET IsProbe(c) == c.node # "uri" /\ c.cmd = ProbeCmd
        sent == SelectSeq(cmds, IsProbe)
    IN  [i \in DOMAIN sent |-> sent[i].node]

\* The exception the probe of the last iteration raised.
ProbeError == IF argv.modes = {} THEN direct_error ELSE node_error

\* The finding a probe that failed to connect must raise: that of the
\* decision table in the replica-set check (none for a segregated
\* arbiter), the unreachable node in the other two; none of them tells a
\* timeout from a refused connection.
ConnectivityFinding(host) ==
    IF argv.modes # {} THEN {"node_unreachable"}
    ELSE { k \in {"network_issue", "down", "down_unknown"} :
              FindingClass(k) = ClassOfStep(host, "ConnectionFailure") }

\* C28: the nodes probed are at every moment the configured addresses the
\* loop has handled, each place in the list probed once and in order, so
\* that no probe is repeated, and all of them once the per-node loop is
\* over; a probe that fails, by a timeout or otherwise, ends the iteration
\* with the finding of a connectivity failure and the loop moves on.
C28_NoRetries ==
    /\ [](Probed = SubSeq(uri_hosts, 1, node_i))
    /\ []((pc = "done" /\ (argv.modes # {} \/ RsCompleted)) => Probed = uri_hosts)
    /\ [][(Probed' # Probed /\ ProbeError' \in ConnectivityErrors) =>
            LET host == uri_hosts[node_i + 1]
                added == SubSeq(output'.messages, Len(output.messages) + 1,
                                Len(output'.messages))
            IN  /\ node_i' = node_i + 1
                /\ pc' = pc
                /\ Probed' = Append(Probed, host)
                /\ IF ConnectivityFinding(host) = {}
                   THEN added = <<>>
                   ELSE /\ Len(added) = 1
                        /\ added[1].sev = NAGIOS_CRITICAL
                        /\ added[1].node = host
                        /\ added[1].kind \in ConnectivityFinding(host)]_vars

\* The filesystem check of two nodes, the second of which timed out: each
\* was probed once, and the second is reported unreachable.
C28_Witness ==
    /\ pc = "done"
    /\ argv.modes = {"filesystem"}
    /\ uri_hosts = <<"h1:27017", "h2:27017">>
    /\ node_error = "ServerSelectionTimeoutError"
    /\ Probed = uri_hosts
    /\ output.messages[Len(output.messages)]
          = Finding(NAGIOS_CRITICAL, "node_unreachable", "h2:27017")

----------------------------------------------------------------------------
(* AvailabilityChecker._check_sharded.                                     *)

\* Shards in the answer of listShards in one behaviour of SpecSharded.
MaxShards == 2

\* The shard descriptors of listShards once their host string is split:
\* _id, the replica-set name before the "/" (None without one) and the
\* member list. The shards at odd places name their set and have two
\* members, those at even places are a bare host.
ShardIds == <<"shard1", "shard2", "shard3", "shard4">>

Shard(i) ==
    IF i % 2 = 1
    THEN [id |-> ShardIds[i], rs |-> "rs0", nodes |-> <<"a:27018", "b:27018">>]
    ELSE [id |-> ShardIds[i], rs |-> None, nodes |-> <<"c:27018">>]

\* The shard lists: several shards behind one router, one shard behind
\* several routers.
ShardLists ==
    { [i \in 1..k |-> Shard(i)] :
         k \in 1..(IF Len(uri_hosts) = 1 THEN MaxShards ELSE 1) }

\* The config-server descriptor of getShardMap.
ConfigDesc == [id |-> "config", rs |-> "cfg", nodes |-> <<"c1:27019", "c2:27019">>]

\* What a member of a shard or a config server answers to
\* replSetGetStatus: the set it is in (its own, or another), with two
\* healthy members, a member down, a healthy arbiter, a healthy member
\* recovering, or no member; or an exception.
ShardMember(name, state, health) == [name |-> name, state |-> state, health |-> health]

ShardMemberLists(nodes) ==
    LET first == ShardMember(nodes[1], PRIMARY, 1)
        other == IF Len(nodes) > 1 THEN nodes[2] ELSE "x:27018"
    IN  { <<first, ShardMember(other, SECONDARY, 1)>>,
          <<first, ShardMember(other, DOWN, 0)>>,
          <<first, ShardMember(other, ARBITER, 1)>>,
          <<first, ShardMember(other, RECOVERING, 1)>>,
          <<>> }

ShardStatusOutcomes(desc) ==
    { [err |-> None, reply |-> [set |-> IF desc.rs = None THEN "rs1" ELSE desc.rs,
                               members |-> m]] : m \in ShardMemberLists(desc.nodes) }
    \cup { [err |-> None, reply |-> [set |-> "other",
                                    members |-> <<ShardMember(desc.nodes[1], PRIMARY, 1),
                                                  ShardMember("x:27018", ARBITER, 1)>>]] }
    \cup { [err |-> "OperationFailure", reply |-> NoneRec] }

\* A router that answers hello without the sentinel passing for a router.
IsMongos_AnyAnswer(reply) == TRUE

\* node_hello.get("msg") == "isdbgrid"
IsMongos(reply) == reply.msg = "isdbgrid"

\* The loop over the members with every member probed, reachable or not.
ProbeMembers_All(nodes, k) == [i \in 1..Len(nodes) |-> Cmd("ping", nodes[i])]

\* The loop that connects to the members of a shard or of the config set
\* in turn and breaks at the first that answers the ping, the k-th (none
\* answers when k = 0): the pings it sends.
ProbeMembers(nodes, k) ==
    [i \in 1..(IF k = 0 THEN Len(nodes) ELSE k) |-> Cmd("ping", nodes[i])]

\* The classification of a member of a shard, and of a config server.
MemberHealthy(m) == m.health = 1 /\ m.state \in {PRIMARY, SECONDARY, ARBITER}
CfgMemberHealthy(m) == m.health = 1 /\ m.state \in {PRIMARY, SECONDARY}

\* The loop over the members a shard reports: the observation of each, and
\* a Critical finding for each that is not healthy.
RECURSIVE CheckShardMembers(_, _)
CheckShardMembers(o, members) ==
    IF members = <<>> THEN o
    ELSE LET m == Head(members)
             o1 == IF MemberHealthy(m)
                   THEN add_perfdata(o, "shard_member_state", m.name, 1)
                   ELSE add_message(add_perfdata(o, "shard_member_state", m.name, 0),
                                    NAGIOS_CRITICAL, <<"shard_member_down", m.name>>)
         IN  CheckShardMembers(o1, Tail(members))

\* The try block of a shard: replSetGetStatus on the member that answered,
\* the name check, the members, the Ok finding and the counts.
CheckShardStatus(o, desc, r) ==
    IF r.err # None
    THEN add_message(o, NAGIOS_CRITICAL, <<"shard_status_error", desc.id>>)
    ELSE IF desc.rs \notin {None, ""} /\ r.reply.set # desc.rs
    THEN add_message(o, NAGIOS_CRITICAL, <<"shard_name_mismatch", desc.id>>)
    ELSE LET members == r.reply.members
             shard_ok == Cardinality({i \in DOMAIN members : MemberHealthy(members[i])})
             shard_down == Len(members) - shard_ok
             o1 == CheckShardMembers(o, members)
             o2 == IF shard_down = 0
                   THEN add_message(o1, NAGIOS_OK, <<"shard_healthy", desc.id>>)
                   ELSE o1
             o3 == add_perfdata(o2, "shard_ok", desc.id, shard_ok)
         IN  add_perfdata(o3, "shard_down", desc.id, shard_down)

\* The loop over the members the config set reports: the observations.
RECURSIVE CheckCfgMembers(_, _)
CheckCfgMembers(o, members) ==
    IF members = <<>> THEN o
    ELSE CheckCfgMembers(
             add_perfdata(o, "config_state", Head(members).name,
                          IF CfgMemberHealthy(Head(members)) THEN 1 ELSE 0),
             Tail(members))

\* The try block of the config set: replSetGetStatus on the config server
\* that answered, the members, the finding and the counts.
CheckCfgStatus(o, desc, r) ==
    IF r.err # None
    THEN add_message(o, NAGIOS_CRITICAL, <<"config_status_error", desc.id>>)
    ELSE LET members == r.reply.members
             cfg_ok == Cardinality({i \in DOMAIN members : CfgMemberHealthy(members[i])})
             cfg_down == Len(members) - cfg_ok
             o1 == CheckCfgMembers(o, members)
             o2 == IF cfg_down > 0
                   THEN add_message(o1, NAGIOS_CRITICAL, <<"config_members_down", desc.id>>)
                   ELSE add_message(o1, NAGIOS_OK, <<"config_healthy", desc.id>>)
             o3 == add_perfdata(o2, "config_rs_ok", desc.id, cfg_ok)
         IN  add_perfdata(o3, "config_rs_down", desc.id, cfg_down)

\* The loop over the shards ended by a shard that could not be evaluated.
ShardLoopAfter_AbortOnFailure(failed) == IF failed THEN "done" ELSE "sh_shards"

\* Where the loop over the shards goes after a shard: each continue and
\* the except clause of the try block lead to the next shard.
ShardLoopAfter(failed) == "sh_shards"

\* _check_sharded, up to the loop over the routers: the ping of the router
\* the check is connected to, listShards and the shard list.
ShStart ==
    /\ pc = "sharded"
    /\ \/ /\ cmds' = Append(cmds, Cmd("ping", "uri"))
          /\ output' = add_message(output, NAGIOS_CRITICAL, <<"mongos_unreachable", "-">>)
          /\ pc' = "done"
          /\ UNCHANGED <<shards, check_error>>
       \/ /\ cmds' = cmds \o <<Cmd("ping", "uri"), Cmd("listShards", "uri")>>
          /\ \/ /\ output' = add_message(output, NAGIOS_CRITICAL,
                                         <<"cannot_list_shards", "-">>)
                /\ pc' = "done"
                /\ UNCHANGED <<shards, check_error>>
             \/ /\ check_error' = "ConnectionFailure"
                /\ pc' = "raised"
                /\ UNCHANGED <<shards, output>>
             \/ /\ shards' = <<>>
                /\ output' = add_message(output, NAGIOS_CRITICAL, <<"no_shards", "-">>)
                /\ pc' = "done"
                /\ UNCHANGED check_error
             \/ /\ shards' \in ShardLists
                /\ pc' = "sh_mongos"
                /\ UNCHANGED <<output, check_error>>
    /\ UNCHANGED <<hello, hello_error, topology, cfgVars, rsVars, teVars, mainVars,
                   nodeVars, dtVars, mongos_ok, mongos_down, shard_i, shard_client,
                   shard_rs_status, config_host, cfg_client, cfg_status>>

\* One iteration of the loop over the routers of the URI.
ShMongos ==
    /\ pc = "sh_mongos"
    /\ node_i < Len(uri_hosts)
    /\ LET node_name == uri_hosts[node_i + 1]
       IN  \/ /\ cmds' = Append(cmds, Cmd("ping", node_name))
              /\ direct_ok' = FALSE
              /\ direct_error' = "ConnectionFailure"
              /\ output' = add_perfdata(
                     add_message(output, NAGIOS_CRITICAL,
                                 <<"mongos_node_unreachable", node_name>>),
                     "mongos_state", node_name, 0)
              /\ mongos_down' = mongos_down + 1
              /\ UNCHANGED <<mongos_ok, hello>>
           \/ \E reply \in HelloAnswers :
                 /\ cmds' = cmds \o <<Cmd("ping", node_name), Cmd("hello", node_name)>>
                 /\ direct_ok' = TRUE
                 /\ direct_error' = None
                 /\ hello' = reply
                 /\ IF IsMongos(reply)
                    THEN /\ output' = add_perfdata(output, "mongos_state", node_name, 1)
                         /\ mongos_ok' = mongos_ok + 1
                         /\ UNCHANGED mongos_down
                    ELSE /\ output' = add_perfdata(
                                add_message(output, NAGIOS_CRITICAL,
                                            <<"not_a_mongos", node_name>>),
                                "mongos_state", node_name, 0)
                         /\ mongos_down' = mongos_down + 1
                         /\ UNCHANGED mongos_ok
    /\ node_i' = node_i + 1
    /\ UNCHANGED <<pc, hello_error, topology, check_error, cfgVars, teVars, mainVars,
                   nodeVars, dtVars, rs_status, quorum, nodes_ok, nodes_down,
                   indirect_info, shards, shard_i, shard_client, shard_rs_status,
                   config_host, cfg_client, cfg_status>>

\* The finding that closes the loop over the routers.
ShMongosSummary ==
    /\ pc = "sh_mongos"
    /\ node_i = Len(uri_hosts)
    /\ output' = IF mongos_down = 0
                 THEN add_message(output, NAGIOS_OK, <<"all_mongos_reachable", "-">>)
                 ELSE add_message(output, NAGIOS_CRITICAL, <<"mongos_down", "-">>)
    /\ pc' = "sh_shards"
    /\ UNCHANGED <<cmds, hello, hello_error, topology, check_error, cfgVars,
                   rsVars, teVars, extVars>>

\* One iteration of the loop over the shards: the members probed up to
\* the first that answers, the k-th, and the status it reports.
ShShard ==
    /\ pc = "sh_shards"
    /\ shard_i < Len(shards)
    /\ LET desc == shards[shard_i + 1]
       IN  \E k \in 0..Len(desc.nodes) :
              IF k = 0
              THEN /\ cmds' = cmds \o ProbeMembers(desc.nodes, 0)
                   /\ shard_client' = None
                   /\ shard_rs_status' = NoneRec
                   /\ output' = add_message(output, NAGIOS_CRITICAL,
                                            <<"shard_no_nodes_reachable", desc.id>>)
                   /\ pc' = ShardLoopAfter(TRUE)
              ELSE \E r \in ShardStatusOutcomes(desc) :
                      /\ cmds' = cmds \o ProbeMembers(desc.nodes, k)
                                      \o <<Cmd("replSetGetStatus", desc.nodes[k])>>
                      /\ shard_client' = desc.nodes[k]
                      /\ shard_rs_status' = r
                      /\ output' = CheckShardStatus(output, desc, r)
                      /\ pc' = ShardLoopAfter(
                                  r.err # None
                                  \/ (desc.rs \notin {None, ""} /\ r.reply.set # desc.rs))
    /\ shard_i' = shard_i + 1
    /\ UNCHANGED <<hello, hello_error, topology, check_error, cfgVars, rsVars,
                   teVars, mainVars, nodeVars, dtVars, shards, mongos_ok,
                   mongos_down, config_host, cfg_client, cfg_status>>

\* The perfdata that closes _check_sharded.
MongosCounts(o) ==
    add_perfdata(add_perfdata(o, "mongos_ok", "-", mongos_ok),
                 "mongos_down", "-", mongos_down)

\* The config-server set and the closing perfdata: getShardMap, whose
\* exception is swallowed (and reported in the verbose long output only)
\* and whose map may name no config set, the config servers probed up to
\* the first that answers, the k-th, and the status it reports.
ShConfig ==
    /\ pc = "sh_shards"
    /\ shard_i = Len(shards)
    /\ \/ /\ cmds' = Append(cmds, Cmd("getShardMap", "uri"))
          /\ \/ cfg_status' = [err |-> "OperationFailure", reply |-> NoneRec]
             \/ cfg_status' = NoneRec
          /\ UNCHANGED <<config_host, cfg_client>>
          /\ output' = MongosCounts(output)
       \/ \E k \in 0..Len(ConfigDesc.nodes) :
             /\ config_host' = ConfigDesc
             /\ IF k = 0
                THEN /\ cmds' = Append(cmds, Cmd("getShardMap", "uri"))
                                   \o ProbeMembers(ConfigDesc.nodes, 0)
                     /\ cfg_client' = None
                     /\ cfg_status' = NoneRec
                     /\ output' = MongosCounts(
                            add_message(output, NAGIOS_CRITICAL,
                                <<"config_no_nodes_reachable", ConfigDesc.id>>))
                ELSE \E r \in ShardStatusOutcomes(ConfigDesc) :
                        /\ cmds' = Append(cmds, Cmd("getShardMap", "uri"))
                                      \o ProbeMembers(ConfigDesc.nodes, k)
                                      \o <<Cmd("replSetGetStatus",
                                               ConfigDesc.nodes[k])>>
                        /\ cfg_client' = ConfigDesc.nodes[k]
                        /\ cfg_status' = r
                        /\ output' = MongosCounts(
                               CheckCfgStatus(output, ConfigDesc, r))
    /\ pc' = "done"
    /\ UNCHANGED <<hello, hello_error, topology, check_error, cfgVars, rsVars,
                   teVars, mainVars, nodeVars, dtVars, shards, mongos_ok,
                   mongos_down, shard_i, shard_client, shard_rs_status>>

\* _check_sharded, from its call by check on a sharded topology.
InitSharded ==
    /\ output = NewOutput
    /\ uri_hosts \in HostLists(MaxHosts)
    /\ expected_rs_name = None
    /\ uri_replicaSet = None
    /\ pc = "sharded"
    /\ cmds = <<Cmd("hello", "uri")>>
    /\ hello = [msg |-> "isdbgrid", setName |-> None]
    /\ hello_error = None
    /\ topology = SHARDED
    /\ check_error = None
    /\ IdleRs /\ IdleTe /\ IdleExt

NextSharded == ShStart \/ ShMongos \/ ShMongosSummary \/ ShShard \/ ShConfig

SpecSharded == InitSharded /\ [][NextSharded]_vars

----------------------------------------------------------------------------
(* The claims about the sharded check.                                     *)

\* The loop over the routers is over.
RoutersChecked == pc = "sh_shards" \/ (pc = "done" /\ shards # <<>>)

\* C21: each iteration of the loop over the routers probes the next
\* configured address; a router that is out of reach, or that answers
\* without the router sentinel, raises one Critical finding about it and
\* is counted down, any other is counted ok and raises nothing; the counts
\* add up to the addresses handled, and to the configured addresses once
\* the loop is over; and from then on the run is Critical if a router is
\* counted down.
C21_RoutersVerified ==
    /\ [][(pc = "sh_mongos" /\ node_i' = node_i + 1) =>
            LET host == uri_hosts[node_i']
                failed == direct_error' # None \/ hello'.msg # "isdbgrid"
            IN  /\ \E i \in (Len(cmds) + 1)..Len(cmds') : cmds'[i] = Cmd("ping", host)
                /\ IF failed
                   THEN /\ OneFindingAdded(output, output', NAGIOS_CRITICAL, host)
                        /\ output'.status = NAGIOS_CRITICAL
                        /\ mongos_down' = mongos_down + 1
                        /\ mongos_ok' = mongos_ok
                   ELSE /\ output'.messages = output.messages
                        /\ output'.status = output.status
                        /\ mongos_ok' = mongos_ok + 1
                        /\ mongos_down' = mongos_down]_vars
    /\ [](pc = "sh_mongos" => mongos_ok + mongos_down = node_i)
    /\ [](RoutersChecked =>
            /\ mongos_ok + mongos_down = Len(uri_hosts)
            /\ mongos_down > 0 => output.status = NAGIOS_CRITICAL
            /\ mongos_down > 0 <=> HasFinding(NAGIOS_CRITICAL, "mongos_down")
            /\ mongos_down = 0 <=> HasFinding(NAGIOS_OK, "all_mongos_reachable"))

\* Two routers configured, the first a router and the second a node that
\* answers without the sentinel: one ok, one down, and the run, over, is
\* Critical though every shard and the config set are healthy.
C21_Witness ==
    /\ pc = "done"
    /\ Len(uri_hosts) = 2
    /\ mongos_ok = 1
    /\ mongos_down = 1
    /\ direct_ok
    /\ hello.msg # "isdbgrid"
    /\ output.messages =
          << Finding(NAGIOS_CRITICAL, "not_a_mongos", uri_hosts[2]),
             Finding(NAGIOS_CRITICAL, "mongos_down", "-"),
             Finding(NAGIOS_OK, "shard_healthy", "shard1"),
             Finding(NAGIOS_OK, "config_healthy", "config") >>
    /\ output.status = NAGIOS_CRITICAL

\* A set (a shard, or the config set, by its id) had its status evaluated:
\* its counts are in the perfdata; or a Critical finding is about it.
SetEvaluated(o, id) ==
    \E i \in DOMAIN o.perfdata :
        /\ o.perfdata[i].label \in {"shard_ok", "config_rs_ok"}
        /\ o.perfdata[i].node = id

SetReported(o, id) ==
    \E i \in DOMAIN o.messages :
        o.messages[i].sev = NAGIOS_CRITICAL /\ o.messages[i].node = id

\* The sharded check went through its five steps.
ShardedCompleted == pc = "done" /\ shards # <<>>

\* C22: when the sharded check is over, each shard of the list and the
\* config-server set has had its status evaluated or has a Critical
\* finding about it; with none of its members reachable, the finding is
\* the one of no node reachable.
C22_NothingSkipped ==
    ShardedCompleted =>
        /\ \A i \in DOMAIN shards :
              SetEvaluated(output, shards[i].id) \/ SetReported(output, shards[i].id)
        /\ SetEvaluated(output, ConfigDesc.id) \/ SetReported(output, ConfigDesc.id)
        /\ (config_host # NoneRec /\ cfg_client = None)
              => HasFinding(NAGIOS_CRITICAL, "config_no_nodes_reachable")

\* The same of the shards alone, and of the config set once getShardMap
\* has named it.
ShardsNeverSkipped ==
    /\ [][shard_i' = shard_i + 1 =>
            LET id == shards[shard_i + 1].id
            IN  /\ SetEvaluated(output', id) \/ SetReported(output', id)
                /\ shard_client' = None <=>
                      (/\ Len(output'.messages) = Len(output.messages) + 1
                       /\ output'.messages[Len(output'.messages)]
                             = Finding(NAGIOS_CRITICAL, "shard_no_nodes_reachable", id))
          ]_vars
    /\ []((ShardedCompleted /\ config_host # NoneRec) =>
             /\ SetEvaluated(output, ConfigDesc.id) \/ SetReported(output, ConfigDesc.id)
             /\ cfg_client = None
                   <=> HasFinding(NAGIOS_CRITICAL, "config_no_nodes_reachable"))

----------------------------------------------------------------------------
(* The loop over the shards.                                               *)

\* The sharded check with each of its steps taken in the end: a connection
\* attempt and a command end, by an answer or by their timeout.
SpecShardedFair == SpecSharded /\ WF_vars(NextSharded)

\* The shard handled by a step of the loop could not be evaluated: no
\* member answered, the status command failed, or the set it reports is
\* not the one of the descriptor.
ShardFailed(desc, client, status) ==
    \/ client = None
    \/ status.err # None
    \/ (desc.rs \notin {None, ""} /\ status.reply.set # desc.rs)

\* C23: a step of the loop over the shards handles the next shard of the
\* list; when the shard cannot be evaluated (no member reachable, status
\* error, name mismatch) it adds one Critical finding about that shard,
\* otherwise it evaluates it; either way it keeps what was reported before
\* and goes on with the loop. So the shards handled are those before
\* shard_i, in list order, the check does not end before the last of them,
\* and from the loop it does come to its end.
C23_ShardsIsolated ==
    /\ [][(pc = "sh_shards" /\ shard_i' = shard_i + 1) =>
            LET desc == shards[shard_i + 1]
            IN  /\ IF ShardFailed(desc, shard_client', shard_rs_status')
                   THEN /\ OneFindingAdded(output, output', NAGIOS_CRITICAL, desc.id)
                        /\ output'.status = NAGIOS_CRITICAL
                        /\ ~SetEvaluated(output', desc.id)
                   ELSE SetEvaluated(output', desc.id)
                /\ SubSeq(output'.messages, 1, Len(output.messages)) = output.messages
                /\ SubSeq(output'.perfdata, 1, Len(output.perfdata)) = output.perfdata
                /\ pc' = "sh_shards"]_vars
    /\ []((pc = "sh_shards" \/ ShardedCompleted) =>
            \A i \in DOMAIN shards :
               i <= shard_i <=> (SetEvaluated(output, shards[i].id)
                                   \/ SetReported(output, shards[i].id)))
    /\ [](ShardedCompleted => shard_i = Len(shards))
    /\ (pc = "sh_shards") ~> (ShardedCompleted /\ shard_i = Len(shards))

\* Two shards: no member of the first answers, the second is evaluated and
\* healthy, and the check, over, is Critical with the one finding about
\* the first shard.
C23_Witness ==
    /\ ShardedCompleted
    /\ Len(shards) = 2
    /\ HasFinding(NAGIOS_CRITICAL, "shard_no_nodes_reachable")
    /\ ~SetEvaluated(output, "shard1")
    /\ SetEvaluated(output, "shard2")
    /\ shard_client = "c:27018"
    /\ \E i, j \in DOMAIN output.messages :
          /\ i < j
          /\ output.messages[i] = Finding(NAGIOS_CRITICAL, "shard_no_nodes_reachable", "shard1")
          /\ output.messages[j] = Finding(NAGIOS_OK, "shard_healthy", "shard2")
    /\ output.status = NAGIOS_CRITICAL

\* C27: a step of the loop over the shards pings the members of the shard
\* in the order of the descriptor, each at most once, up to the first that
\* answers and none after it; the status is asked once, of that member,
\* after the pings (and of nobody when no member answered); and the
\* members that failed before it leave no trace in the result: a shard
\* whose status reports only healthy members adds the one Ok finding and
\* leaves the status of the run as it was.
C27_FirstReachableMember ==
    [][(pc = "sh_shards" /\ shard_i' = shard_i + 1) =>
          LET desc == shards[shard_i + 1]
              nodes == desc.nodes
              new == SubSeq(cmds', Len(cmds) + 1, Len(cmds'))
              pings == SelectSeq(new, LAMBDA c : c.cmd = "ping")
              queries == SelectSeq(new, LAMBDA c : c.cmd = "replSetGetStatus")
          IN  /\ new = pings \o queries
              /\ Len(pings) <= Len(nodes)
              /\ \A i \in DOMAIN pings : pings[i].node = nodes[i]
              /\ IF shard_client' = None
                 THEN Len(pings) = Len(nodes) /\ queries = <<>>
                 ELSE /\ pings[Len(pings)].node = shard_client'
                      /\ queries = <<Cmd("replSetGetStatus", shard_client')>>
                      /\ (/\ ~ShardFailed(desc, shard_client', shard_rs_status')
                          /\ \A i \in DOMAIN shard_rs_status'.reply.members :
                                MemberHealthy(shard_rs_status'.reply.members[i]))
                         => /\ output'.messages
                                 = Append(output.messages,
                                          Finding(NAGIOS_OK, "shard_healthy", desc.id))
                            /\ output'.status = output.status]_vars

\* The first member of the first shard does not answer, the second does:
\* it is the one asked for the status, and the shard, healthy, leaves the
\* run Ok.
C27_Witness ==
    /\ pc = "sh_shards"
    /\ shard_i = 1
    /\ shard_client = "b:27018"
    /\ Len(cmds) > 3
    /\ SubSeq(cmds, Len(cmds) - 2, Len(cmds))
          = << Cmd("ping", "a:27018"), Cmd("ping", "b:27018"),
               Cmd("replSetGetStatus", "b:27018") >>
    /\ output.messages = << Finding(NAGIOS_OK, "all_mongos_reachable", "-"),
                            Finding(NAGIOS_OK, "shard_healthy", "shard1") >>
    /\ output.status = NAGIOS_OK

----------------------------------------------------------------------------
(* The config-server set against the procedure of a shard.                 *)

\* The config-server set answered its status query.
ConfigStatusKnown ==
    /\ ShardedCompleted
    /\ config_host # NoneRec
    /\ cfg_client # None
    /\ cfg_status.err = None

\* The observation of a member of the config set in the perfdata.
ConfigObservation(name, val) ==
    \E i \in DOMAIN output.perfdata :
        /\ output.perfdata[i].label = "config_state"
        /\ output.perfdata[i].node = name
        /\ output.perfdata[i].value = val

\* C26: the config-server set whose status is known gets what a shard
\* with the same descriptor and the same status gets: a Critical finding
\* about the set, and no evaluation, when the status names another set
\* than the descriptor; otherwise each member observed healthy iff its
\* health is 1 and its state Primary, Secondary or Arbiter, and the count
\* of healthy members that of those members.
C26_ConfigLikeShard ==
    ConfigStatusKnown =>
        LET members == cfg_status.reply.members
        IN  IF config_host.rs \notin {None, ""} /\ cfg_status.reply.set # config_host.rs
            THEN /\ SetReported(output, config_host.id)
                 /\ ~SetEvaluated(output, config_host.id)
            ELSE /\ \A i \in DOMAIN members :
                       ConfigObservation(members[i].name,
                                         IF MemberHealthy(members[i]) THEN 1 ELSE 0)
                 /\ \E p \in DOMAIN output.perfdata :
                       /\ output.perfdata[p].label = "config_rs_ok"
                       /\ output.perfdata[p].value
                             = Cardinality({i \in DOMAIN members :
                                               MemberHealthy(members[i])})

\* What the config-server set gets instead: no name check, a member
\* observed healthy iff its health is 1 and its state Primary or
\* Secondary, and one Critical finding for the set when a member is not.
ConfigOwnProcedure ==
    ConfigStatusKnown =>
        LET members == cfg_status.reply.members
            down == {i \in DOMAIN members : ~CfgMemberHealthy(members[i])}
        IN  /\ SetEvaluated(output, config_host.id)
            /\ \A i \in DOMAIN members :
                  ConfigObservation(members[i].name,
                                    IF i \in down THEN 0 ELSE 1)
            /\ down # {} <=> HasFinding(NAGIOS_CRITICAL, "config_members_down")
            /\ down = {} <=> HasFinding(NAGIOS_OK, "config_healthy")

====
